---- MODULE Spec2Model ----
(***************************************************************************)
(* Model of the workout validation engine of src/src/domain/workout_model.py *)
(* (Exercise / JobMode / Job / Stage / Workout .from_dict) and of the mode  *)
(* resolvers of the schema pipeline (src/src/application/workout_loader.py, *)
(* src/src/domain_v2/workout_v2.py).                                        *)
(*                                                                         *)
(* Python values are records [t |-> type tag, v |-> payload]:               *)
(*   none, bool (BOOLEAN), int (Int), float (Int, counted in halves),       *)
(*   str (a TLA+ string), list (a sequence of values),                      *)
(*   dict (a sequence of [k |-> key value, v |-> value] pairs, in insertion *)
(*   order, keys pairwise different).                                       *)
(***************************************************************************)
EXTENDS Integers, Sequences, FiniteSets, TLC

VARIABLES kind, doc, op, result

vars == <<kind, doc, op, result>>

(* ------------------------------------------------------------------ *)
(* Python values                                                      *)
(* ------------------------------------------------------------------ *)

PyNone == [t |-> "none", v |-> 0]

PyBool(b) == [t |-> "bool", v |-> b]

PyInt(n) == [t |-> "int", v |-> n]

PyFloat(halves) == [t |-> "float", v |-> halves]

PyStr(s) == [t |-> "str", v |-> s]

PyList(l) == [t |-> "list", v |-> l]

PyDict(pairs) == [t |-> "dict", v |-> pairs]

KV(key, val) == [k |-> PyStr(key), v |-> val]

IsNone(x) == x.t = "none"

IsStr(x) == x.t = "str"

IsBool(x) == x.t = "bool"

\* isinstance(x, int): bool is a subclass of int in Python.
IsInt(x) == x.t \in {"int", "bool"}

\* isinstance(x, (int, float))
IsNumber(x) == x.t \in {"int", "bool", "float"}

IsList(x) == x.t = "list"

IsDict(x) == x.t = "dict"

\* The integer a bool or int compares as (True == 1, False == 0).
IntVal(x) == IF x.t = "bool" THEN (IF x.v THEN 1 ELSE 0) ELSE x.v

\* bool(x): Python truthiness, as used by `a or b` and `not x`.
Truthy(x) ==
    CASE x.t = "none" -> FALSE
      [] x.t = "bool" -> x.v
      [] x.t = "int" -> x.v # 0
      [] x.t = "float" -> x.v # 0
      [] x.t = "str" -> Len(x.v) > 0
      [] x.t = "list" -> Len(x.v) > 0
      [] x.t = "dict" -> Len(x.v) > 0

\* a or b
PyOr(a, b) == IF Truthy(a) THEN a ELSE b

\* key in data
KeyIn(data, key) == \E i \in 1..Len(data.v) : data.v[i].k = PyStr(key)

\* data.get(key)
Get(data, key) ==
    IF KeyIn(data, key)
    THEN data.v[CHOOSE i \in 1..Len(data.v) : data.v[i].k = PyStr(key)].v
    ELSE PyNone

\* Python's int is unbounded while a float ends near 1.8 * 10^308: the
\* integers from HugeInt on stand for the integers beyond the float range.
HugeInt == 2^30

\* float(x) raises OverflowError for an int x beyond the float range
FloatOverflows(x) == IsInt(x) /\ (IntVal(x) >= HugeInt \/ IntVal(x) <= -HugeInt)

\* str(exc) of the OverflowError that float(x) raises
OverflowMsg == "int too large to convert to float"

(* ------------------------------------------------------------------ *)
(* Strings                                                            *)
(* ------------------------------------------------------------------ *)

UpperAlpha == "ABCDEFGHIJKLMNOPQRSTUVWXYZ"

LowerAlpha == "abcdefghijklmnopqrstuvwxyz"

Digits == "0123456789"

CharAt(s, i) == SubSeq(s, i, i)

IndexIn(alpha, c) ==
    IF \E i \in 1..Len(alpha) : CharAt(alpha, i) = c
    THEN CHOOSE i \in 1..Len(alpha) : CharAt(alpha, i) = c
    ELSE 0

LowerChar(c) ==
    LET i == IndexIn(UpperAlpha, c) IN IF i = 0 THEN c ELSE CharAt(LowerAlpha, i)

UpperChar(c) ==
    LET i == IndexIn(LowerAlpha, c) IN IF i = 0 THEN c ELSE CharAt(UpperAlpha, i)

RECURSIVE Lower(_)
\* str.lower()
Lower(s) == IF s = "" THEN "" ELSE LowerChar(Head(s)) \o Lower(Tail(s))

RECURSIVE Upper(_)
\* str.upper()
Upper(s) == IF s = "" THEN "" ELSE UpperChar(Head(s)) \o Upper(Tail(s))

IsSpace(c) == c \in {" ", "\t", "\n"}

RECURSIVE LStrip(_)
LStrip(s) == IF s # "" /\ IsSpace(Head(s)) THEN LStrip(Tail(s)) ELSE s

RECURSIVE RStrip(_)
RStrip(s) ==
    IF s # "" /\ IsSpace(CharAt(s, Len(s)))
    THEN RStrip(SubSeq(s, 1, Len(s) - 1))
    ELSE s

\* str.strip()
Strip(s) == RStrip(LStrip(s))

\* needle in haystack
Contains(haystack, needle) ==
    \E i \in 1..(Len(haystack) - Len(needle) + 1) :
        SubSeq(haystack, i, i + Len(needle) - 1) = needle

HasChar(s, c) == \E i \in 1..Len(s) : CharAt(s, i) = c

RECURSIVE NatStr(_)
NatStr(n) ==
    IF n < 10
    THEN CharAt(Digits, n + 1)
    ELSE NatStr(n \div 10) \o CharAt(Digits, (n % 10) + 1)

\* str(n) for an int n
IntStr(n) == IF n < 0 THEN "-" \o NatStr(0 - n) ELSE NatStr(n)

RECURSIVE EscapeChars(_, _)
EscapeChars(s, quote) ==
    IF s = "" THEN ""
    ELSE LET c == Head(s)
             e == CASE c = "\\" -> "\\\\"
                    [] c = quote -> "\\" \o quote
                    [] c = "\n" -> "\\n"
                    [] c = "\t" -> "\\t"
                    [] OTHER -> c
         IN e \o EscapeChars(Tail(s), quote)

\* repr(s) for a str s: f"{s!r}".  Double quotes are chosen when the text
\* holds a single quote and no double quote.
Repr(s) ==
    LET quote == IF HasChar(s, "'") /\ ~HasChar(s, "\"") THEN "\"" ELSE "'"
    IN quote \o EscapeChars(s, quote) \o quote

\* str(x) of a float counted in halves: 5 -> "2.5", 4 -> "2.0", -1 -> "-0.5"
FloatStr(h) ==
    LET a == IF h < 0 THEN 0 - h ELSE h
    IN (IF h < 0 THEN "-" ELSE "") \o NatStr(a \div 2)
           \o (IF a % 2 = 0 THEN ".0" ELSE ".5")

RECURSIVE PyRepr(_)
RECURSIVE ReprItems(_)
RECURSIVE ReprPairs(_)
\* repr(x)
PyRepr(x) ==
    CASE x.t = "none" -> "None"
      [] x.t = "bool" -> (IF x.v THEN "True" ELSE "False")
      [] x.t = "int" -> IntStr(x.v)
      [] x.t = "float" -> FloatStr(x.v)
      [] x.t = "str" -> Repr(x.v)
      [] x.t = "list" -> "[" \o ReprItems(x.v) \o "]"
      [] x.t = "dict" -> "{" \o ReprPairs(x.v) \o "}"

ReprItems(l) ==
    IF l = <<>> THEN ""
    ELSE PyRepr(Head(l)) \o (IF Len(l) > 1 THEN ", " ELSE "") \o ReprItems(Tail(l))

ReprPairs(l) ==
    IF l = <<>> THEN ""
    ELSE PyRepr(Head(l).k) \o ": " \o PyRepr(Head(l).v)
             \o (IF Len(l) > 1 THEN ", " ELSE "") \o ReprPairs(Tail(l))

\* str(x)
PyToStr(x) == IF x.t = "str" THEN x.v ELSE PyRepr(x)

(* ------------------------------------------------------------------ *)
(* Results of a call: a value, or a raised exception                  *)
(* ------------------------------------------------------------------ *)

Ok(val) == [ok |-> TRUE, exc |-> "", msg |-> "", val |-> val]

Raise(exc, msg) == [ok |-> FALSE, exc |-> exc, msg |-> msg, val |-> PyNone]

NoResult == [ok |-> FALSE, exc |-> "", msg |-> "", val |-> PyNone]

(* ------------------------------------------------------------------ *)
(* String length limits                                               *)
(* ------------------------------------------------------------------ *)

MAX_NAME_LEN == 40

MAX_DESC_LEN == 300

MAX_CADENCE_LEN == 20

MAX_NOTES_LEN == 200

MAX_EXTRA_KEY_LEN == 30

MAX_EXTRA_VAL_LEN == 100

\* a slip in the cut below: one character too many is kept
TruncateOneMore(value, max_len) ==
    IF ~IsStr(value) THEN value
    ELSE IF Len(value.v) <= max_len THEN value
    ELSE PyStr(SubSeq(value.v, 1, max_len + 1))

\* _truncate(value, max_len)
Truncate(value, max_len) ==
    IF ~IsStr(value) THEN value
    ELSE IF Len(value.v) <= max_len THEN value
    ELSE PyStr(SubSeq(value.v, 1, max_len))

(* ------------------------------------------------------------------ *)
(* Shared pieces of the from_dict builders                            *)
(* A check gives the text of the error it raises, "" when it passes.  *)
(* ------------------------------------------------------------------ *)

\* checks run in order and the first that fails raises
Else(err, rest) == IF err # "" THEN err ELSE rest

RECURSIVE ExtraError(_, _)
\* for k, v in data.items(): the strict length check of the extra keys
ExtraError(pairs, core_keys) ==
    IF pairs = <<>> THEN ""
    ELSE IF IsStr(Head(pairs).k) /\ Head(pairs).k.v \in core_keys
    THEN ExtraError(Tail(pairs), core_keys)
    ELSE IF IsStr(Head(pairs).k) /\ Len(Head(pairs).k.v) > MAX_EXTRA_KEY_LEN
    THEN "extra field name '" \o Head(pairs).k.v \o "' exceeds max length "
             \o IntStr(MAX_EXTRA_KEY_LEN)
    ELSE ExtraError(Tail(pairs), core_keys)

\* an extra value kept whole, whatever its length
ExtraValueUncut(v) == v

\* the soft length cap of one extra value
ExtraValueOf(v) ==
    IF IsStr(v) /\ Len(v.v) > MAX_EXTRA_VAL_LEN THEN Truncate(v, MAX_EXTRA_VAL_LEN) ELSE v

RECURSIVE ExtraFields(_, _)
\* for k, v in data.items(): the extra dict, in input order
ExtraFields(pairs, core_keys) ==
    IF pairs = <<>> THEN <<>>
    ELSE IF IsStr(Head(pairs).k) /\ Head(pairs).k.v \in core_keys
    THEN ExtraFields(Tail(pairs), core_keys)
    ELSE <<[k |-> Head(pairs).k, v |-> ExtraValueOf(Head(pairs).v)]>>
             \o ExtraFields(Tail(pairs), core_keys)

\* raw_name = data.get("NAME") or data.get("name")
RawName(data) == PyOr(Get(data, "NAME"), Get(data, "name"))

\* a slip in the checks below: the length of the name is not looked at
NameErrorUncapped(raw_name) ==
    IF ~IsStr(raw_name) THEN "missing required field 'NAME'"
    ELSE IF Strip(raw_name.v) = "" THEN "missing required field 'NAME'"
    ELSE ""

\* the NAME checks of Exercise, Job, Stage and Workout
NameError(raw_name) ==
    IF ~IsStr(raw_name) THEN "missing required field 'NAME'"
    ELSE IF Strip(raw_name.v) = "" THEN "missing required field 'NAME'"
    ELSE IF Len(Strip(raw_name.v)) > MAX_NAME_LEN
    THEN "field 'NAME' exceeds max length " \o IntStr(MAX_NAME_LEN) \o " characters"
    ELSE ""

\* the description check of Job, Stage and Workout
DescriptionError(desc_raw) ==
    IF ~IsNone(desc_raw) /\ ~IsStr(desc_raw)
    THEN "field 'description' must be a string"
    ELSE ""

\* _truncate(desc_raw.strip(), MAX_DESC_LEN) if isinstance(desc_raw, str) else None
DescriptionValue(desc_raw) ==
    IF IsStr(desc_raw) THEN Truncate(PyStr(Strip(desc_raw.v)), MAX_DESC_LEN) ELSE PyNone

(* ------------------------------------------------------------------ *)
(* Exercise                                                           *)
(* ------------------------------------------------------------------ *)

ExerciseCoreKeys ==
    {"NAME", "name", "reps", "work_time_in_seconds", "weight", "notes", "note",
     "DESCRIPTION", "Description", "description", "help"}

NotesKeys == <<"notes", "note", "DESCRIPTION", "Description", "description">>

RECURSIVE FirstStrNote(_, _)
\* for key in (...): the first key whose value is a str gives the notes
FirstStrNote(data, keys) ==
    IF keys = <<>> THEN PyNone
    ELSE IF IsStr(Get(data, Head(keys)))
    THEN Truncate(PyStr(Strip(Get(data, Head(keys)).v)), MAX_NOTES_LEN)
    ELSE FirstStrNote(data, Tail(keys))

\* help_text of Exercise.from_dict
HelpValue(help_raw) ==
    IF IsStr(help_raw) THEN Truncate(PyStr(Strip(help_raw.v)), MAX_NOTES_LEN) ELSE PyNone

\* Exercise.from_dict: the reps check
ExerciseRepsError(reps_raw) == ~IsNone(reps_raw) /\ ~IsInt(reps_raw)

\* Exercise.from_dict: the work_time_in_seconds check
ExerciseWtsError(wts_raw) == ~IsNone(wts_raw) /\ ~IsInt(wts_raw)

\* a slip in the rule below: only reps is looked at
ExerciseNeitherGivenRepsOnly(reps, wts) == IsNone(reps)

\* Exercise.from_dict: the rule "at least one of the two"
ExerciseNeitherGiven(reps, wts) == IsNone(reps) /\ IsNone(wts)

\* Exercise.from_dict: the checks that follow NAME, up to weight
ExerciseFieldsError(name, reps_raw, wts_raw, weight_raw) ==
    IF ExerciseRepsError(reps_raw)
    THEN "Exercise " \o Repr(name) \o ": reps must be an integer"
    ELSE IF ExerciseWtsError(wts_raw)
    THEN "Exercise " \o Repr(name) \o ": work_time_in_seconds must be an integer"
    ELSE IF ExerciseNeitherGiven(reps_raw, wts_raw)
    THEN "Exercise " \o Repr(name) \o ": at least one of 'reps' or "
             \o "'work_time_in_seconds' must be present"
    ELSE IF ~IsNone(weight_raw) /\ ~IsNumber(weight_raw)
    THEN "Exercise " \o Repr(name) \o ": weight must be a number"
    ELSE ""

\* Exercise.from_dict: every check, in the order of the code
ExerciseError(data) ==
    Else(NameError(RawName(data)),
    Else(ExerciseFieldsError(Strip(RawName(data).v), Get(data, "reps"),
                             Get(data, "work_time_in_seconds"), Get(data, "weight")),
    Else(IF FloatOverflows(Get(data, "weight")) THEN OverflowMsg ELSE "",
         ExtraError(data.v, ExerciseCoreKeys))))

\* weight = float(weight_raw), None when absent (floats are counted in halves)
WeightValue(weight_raw) ==
    IF IsNone(weight_raw) THEN PyNone
    ELSE IF weight_raw.t = "float" THEN weight_raw
    ELSE PyFloat(2 * IntVal(weight_raw))

\* the Exercise that Exercise.from_dict returns
ExerciseValue(data) ==
    [name |-> Strip(RawName(data).v),
     reps |-> Get(data, "reps"),
     work_time_in_seconds |-> Get(data, "work_time_in_seconds"),
     weight |-> WeightValue(Get(data, "weight")),
     notes |-> FirstStrNote(data, NotesKeys),
     help |-> HelpValue(Get(data, "help")),
     extra |-> PyDict(ExtraFields(data.v, ExerciseCoreKeys))]

\* float(weight_raw) sits in no try block: its OverflowError leaves as it is
ExerciseResult(data, err) ==
    IF err = OverflowMsg THEN Raise("OverflowError", err)
    ELSE IF err # "" THEN Raise("ExerciseValidationError", err)
    ELSE Ok(ExerciseValue(data))

\* Exercise.from_dict(data)
Exercise_from_dict(data) ==
    IF ~IsDict(data) THEN Raise("ExerciseValidationError", "Exercise data must be a dict")
    ELSE ExerciseResult(data, ExerciseError(data))

(* ------------------------------------------------------------------ *)
(* JobMode                                                            *)
(* ------------------------------------------------------------------ *)

\* JobMode.from_str: the text put in the error message
FromStrEchoedText(raw) == Strip(raw)

\* JobMode.from_str: the canonical member for a trimmed, lower-cased text,
\* "" when there is none
JobModeOf(lower) ==
    CASE lower = "custom_sets" -> "custom_sets"
      [] lower = "tabata" -> "TABATA"
      [] lower = "emom" -> "EMOM"
      [] lower = "amrap" -> "AMRAP"
      [] lower = "for_time" -> "for_time"
      [] lower = "edt" -> "EDT"
      [] OTHER -> ""

FromStrResult(raw, mode) ==
    IF mode # "" THEN Ok(mode)
    ELSE Raise("JobValidationError", "unsupported MODE " \o Repr(FromStrEchoedText(raw)))

\* JobMode.from_str(raw)
JobMode_from_str(raw) ==
    IF ~IsStr(raw) THEN Raise("JobValidationError", "Job MODE must be a string")
    ELSE FromStrResult(raw.v, JobModeOf(Lower(Strip(raw.v))))

(* ------------------------------------------------------------------ *)
(* Job                                                                *)
(* ------------------------------------------------------------------ *)

JobCoreKeys ==
    {"NAME", "name", "MODE", "description", "Description", "Rounds", "rounds",
     "work_time_in_seconds", "work_time_in_minutes", "rest_time_in_seconds",
     "Rest_between_exercises_in_seconds", "rest_between_exercises_in_seconds",
     "Rest_between_rounds_in_seconds", "rest_between_rounds_in_seconds",
     "cadence", "Cadence", "Eccentric (NEG)", "eccentric_neg",
     "isometric (HOLD)", "Isometric (HOLD)", "isometric_hold",
     "EXERCISES", "Exercises", "exercises"}

\* mode = JobMode.from_str(str(raw_mode))
JobModeResult(data) == JobMode_from_str(PyStr(PyToStr(Get(data, "MODE"))))

\* Job.from_dict: the MODE checks
JobModeError(data) ==
    IF IsNone(Get(data, "MODE")) THEN "missing required field 'MODE'"
    ELSE JobModeResult(data).msg

\* desc_raw = data.get("description") or data.get("Description")
JobDescriptionRaw(data) == PyOr(Get(data, "description"), Get(data, "Description"))

\* Job.from_dict: the rounds value read from the input
RoundsRaw(data) == IF KeyIn(data, "Rounds") THEN Get(data, "Rounds") ELSE Get(data, "rounds")

\* a slip in the defaults below: the rounds of an EDT job are kept
RoundsKeptForEdt(mode, rounds) ==
    IF mode = "TABATA" /\ IsNone(rounds) THEN PyInt(8)
    ELSE IF mode = "for_time" /\ IsNone(rounds) THEN PyInt(1)
    ELSE rounds

\* Job.from_dict: rounds after the per-mode defaults
RoundsWithDefaults(mode, rounds) ==
    IF mode = "EDT" THEN PyNone
    ELSE IF mode = "TABATA" /\ IsNone(rounds) THEN PyInt(8)
    ELSE IF mode = "for_time" /\ IsNone(rounds) THEN PyInt(1)
    ELSE rounds

\* an optional integer field
IntFieldError(raw, field) ==
    IF ~IsNone(raw) /\ ~IsInt(raw)
    THEN "field '" \o field \o "' must be an integer"
    ELSE ""

\* an optional positive integer field
PositiveIntFieldError(raw, field) ==
    IF IsNone(raw) THEN ""
    ELSE IF ~IsInt(raw) THEN "field '" \o field \o "' must be an integer"
    ELSE IF IntVal(raw) <= 0 THEN "field '" \o field \o "' must be a positive integer"
    ELSE ""

\* Job.from_dict: "EDT: requiere work_time_in_minutes"
EdtWorkTimeError(mode, wtm) ==
    IF mode = "EDT" /\ IsNone(wtm) THEN "EDT job requires 'work_time_in_minutes'" ELSE ""

RestBetweenExercisesRaw(data) ==
    PyOr(Get(data, "Rest_between_exercises_in_seconds"),
         Get(data, "rest_between_exercises_in_seconds"))

RestBetweenRoundsRaw(data) ==
    PyOr(Get(data, "Rest_between_rounds_in_seconds"),
         Get(data, "rest_between_rounds_in_seconds"))

CadenceRaw(data) == PyOr(Get(data, "cadence"), Get(data, "Cadence"))

CadenceError(cad_raw) ==
    IF IsStr(cad_raw) /\ Len(Strip(cad_raw.v)) > MAX_CADENCE_LEN
    THEN "field 'cadence' exceeds max length " \o IntStr(MAX_CADENCE_LEN) \o " characters"
    ELSE ""

CadenceValue(cad_raw) == IF IsStr(cad_raw) THEN PyStr(Strip(cad_raw.v)) ELSE PyNone

\* Job.from_dict: the value looked up for the eccentric flag
EccentricRaw(data) == PyOr(Get(data, "Eccentric (NEG)"), Get(data, "eccentric_neg"))

\* Job.from_dict: the value looked up for the isometric flag
IsometricRaw(data) ==
    PyOr(PyOr(Get(data, "isometric (HOLD)"), Get(data, "Isometric (HOLD)")),
         Get(data, "isometric_hold"))

\* a slip in the coercion below: the text is not trimmed
CoerceFlagUntrimmed(raw) ==
    IF IsBool(raw) THEN raw.v
    ELSE IF IsStr(raw) THEN Lower(raw.v) \in {"true", "yes", "1"}
    ELSE FALSE

\* Job.from_dict: a bool is taken as is, a str by its trimmed lower-cased
\* text, anything else is False
CoerceFlag(raw) ==
    IF IsBool(raw) THEN raw.v
    ELSE IF IsStr(raw) THEN Lower(Strip(raw.v)) \in {"true", "yes", "1"}
    ELSE FALSE

\* Job.from_dict: "no pueden ser ambos True"
FlagsConflict(eccentric_neg, isometric_hold) == eccentric_neg /\ isometric_hold

FlagsError(eccentric_neg, isometric_hold) ==
    IF FlagsConflict(eccentric_neg, isometric_hold)
    THEN "Eccentric (NEG) and Isometric (HOLD) cannot both be true"
    ELSE ""

\* exs_raw = data.get("EXERCISES") or data.get("Exercises") or data.get("exercises"),
\* [] when that is None
ExercisesRaw(data) ==
    PyOr(PyOr(PyOr(Get(data, "EXERCISES"), Get(data, "Exercises")), Get(data, "exercises")),
         PyList(<<>>))

\* the text that wraps the error of the exercise at idx
ExerciseWrapped(idx, inner) == "invalid exercise at index " \o IntStr(idx) \o ": " \o inner

\* except ExerciseValidationError as exc: raise JobValidationError(...)
\* (no other exception is caught: an OverflowError passes through unwrapped)
ExerciseItemError(idx, ex) ==
    IF ex.ok THEN ""
    ELSE IF ex.exc = "OverflowError" THEN ex.msg
    ELSE ExerciseWrapped(idx, ex.msg)

RECURSIVE CheckExercises(_, _, _)
\* for idx, ex_data in enumerate(exs): stops at the first invalid item;
\* need_reps is the TABATA factory's `"reps" not in ex_data` check
CheckExercises(exs, idx, need_reps) ==
    IF idx >= Len(exs) THEN ""
    ELSE IF ~IsDict(exs[idx + 1]) THEN ExerciseWrapped(idx, "must be an object")
    ELSE IF need_reps /\ ~KeyIn(exs[idx + 1], "reps")
    THEN ExerciseWrapped(idx, "missing required field 'reps'")
    ELSE Else(ExerciseItemError(idx, Exercise_from_dict(exs[idx + 1])),
              CheckExercises(exs, idx + 1, need_reps))

\* Job.from_dict: the checks of the exercise list
ExercisesError(exs_raw) ==
    IF ~IsList(exs_raw) THEN "field 'EXERCISES' must be a list"
    ELSE CheckExercises(exs_raw.v, 0, FALSE)

\* exercises.append(Exercise.from_dict(ex_data)) for each item
ExercisesValue(exs) == [i \in 1..Len(exs) |-> ExerciseValue(exs[i])]

\* index of the first exercise without reps, or -1
FirstWithoutReps(exercises) ==
    IF \E i \in 1..Len(exercises) : IsNone(exercises[i].reps)
    THEN (CHOOSE i \in 1..Len(exercises) :
              /\ IsNone(exercises[i].reps)
              /\ \A j \in 1..(i - 1) : ~IsNone(exercises[j].reps)) - 1
    ELSE -1

\* index of the first exercise with work_time_in_seconds, or -1
FirstWithWorkTime(exercises) ==
    IF \E i \in 1..Len(exercises) : ~IsNone(exercises[i].work_time_in_seconds)
    THEN (CHOOSE i \in 1..Len(exercises) :
              /\ ~IsNone(exercises[i].work_time_in_seconds)
              /\ \A j \in 1..(i - 1) : IsNone(exercises[j].work_time_in_seconds)) - 1
    ELSE -1

\* a slip in the rule below: the reps of the exercises are not looked at
ForTimeRuleErrorEmptyOnly(exercises, bad) ==
    IF exercises = <<>>
    THEN "FOR_TIME job requires EXERCISES list with at least one item"
    ELSE ""

ForTimeRuleError(exercises, bad) ==
    IF exercises = <<>>
    THEN "FOR_TIME job requires EXERCISES list with at least one item"
    ELSE IF bad >= 0
    THEN "FOR_TIME job exercise at index " \o IntStr(bad) \o " must define 'reps'"
    ELSE ""

\* a slip in the rule below: the work time of the exercises is not looked at
EdtRuleErrorEmptyOnly(exercises, bad) ==
    IF exercises = <<>>
    THEN "EDT job requires EXERCISES list with at least one item"
    ELSE ""

EdtRuleError(exercises, bad) ==
    IF exercises = <<>>
    THEN "EDT job requires EXERCISES list with at least one item"
    ELSE IF bad >= 0
    THEN "EDT job exercise at index " \o IntStr(bad)
             \o " must not define 'work_time_in_seconds'"
    ELSE ""

\* Job.from_dict: the mode-specific rules applied after the exercises are
\* parsed (FOR_TIME and EDT only)
ModeRuleError(mode, exercises) ==
    IF mode = "for_time" THEN ForTimeRuleError(exercises, FirstWithoutReps(exercises))
    ELSE IF mode = "EDT" THEN EdtRuleError(exercises, FirstWithWorkTime(exercises))
    ELSE ""

\* Job.from_dict: every check, in the order of the code
JobError(data) ==
    Else(NameError(RawName(data)),
    Else(JobModeError(data),
    Else(DescriptionError(JobDescriptionRaw(data)),
    Else(PositiveIntFieldError(RoundsRaw(data), "Rounds"),
    Else(IntFieldError(Get(data, "work_time_in_seconds"), "work_time_in_seconds"),
    Else(PositiveIntFieldError(Get(data, "work_time_in_minutes"), "work_time_in_minutes"),
    Else(EdtWorkTimeError(JobModeResult(data).val, Get(data, "work_time_in_minutes")),
    Else(IntFieldError(Get(data, "rest_time_in_seconds"), "rest_time_in_seconds"),
    Else(IntFieldError(RestBetweenExercisesRaw(data), "Rest_between_exercises_in_seconds"),
    Else(IntFieldError(RestBetweenRoundsRaw(data), "Rest_between_rounds_in_seconds"),
    Else(CadenceError(CadenceRaw(data)),
    Else(FlagsError(CoerceFlag(EccentricRaw(data)), CoerceFlag(IsometricRaw(data))),
    Else(ExercisesError(ExercisesRaw(data)),
    Else(ModeRuleError(JobModeResult(data).val, ExercisesValue(ExercisesRaw(data).v)),
         ExtraError(data.v, JobCoreKeys)))))))))))))))

\* the Job that Job.from_dict returns
JobValue(data) ==
    [name |-> Strip(RawName(data).v),
     mode |-> JobModeResult(data).val,
     description |-> DescriptionValue(JobDescriptionRaw(data)),
     rounds |-> RoundsWithDefaults(JobModeResult(data).val, RoundsRaw(data)),
     work_time_in_seconds |-> Get(data, "work_time_in_seconds"),
     work_time_in_minutes |-> Get(data, "work_time_in_minutes"),
     rest_time_in_seconds |-> Get(data, "rest_time_in_seconds"),
     rest_between_exercises_in_seconds |-> RestBetweenExercisesRaw(data),
     rest_between_rounds_in_seconds |-> RestBetweenRoundsRaw(data),
     cadence |-> CadenceValue(CadenceRaw(data)),
     eccentric_neg |-> CoerceFlag(EccentricRaw(data)),
     isometric_hold |-> CoerceFlag(IsometricRaw(data)),
     exercises |-> ExercisesValue(ExercisesRaw(data).v),
     extra |-> PyDict(ExtraFields(data.v, JobCoreKeys))]

JobResult(data, err) ==
    IF err = OverflowMsg THEN Raise("OverflowError", err)
    ELSE IF err # "" THEN Raise("JobValidationError", err)
    ELSE Ok(JobValue(data))

\* Job.from_dict(data)
Job_from_dict(data) ==
    IF ~IsDict(data) THEN Raise("JobValidationError", "Job data must be a dict")
    ELSE JobResult(data, JobError(data))

\* data[key] = val on a dict: replaces the value of a present key in place,
\* appends a new key at the end
DictSet(data, key, val) ==
    IF KeyIn(data, key)
    THEN PyDict([i \in 1..Len(data.v) |->
                    IF data.v[i].k = PyStr(key) THEN KV(key, val) ELSE data.v[i]])
    ELSE PyDict(Append(data.v, KV(key, val)))

\* the factories' checks of EXERCISES
ExercisesFieldError(data, need_reps) ==
    IF ~KeyIn(data, "EXERCISES") THEN "missing required field 'EXERCISES'"
    ELSE IF ~IsList(Get(data, "EXERCISES")) THEN "field 'EXERCISES' must be a list"
    ELSE IF Get(data, "EXERCISES").v = <<>>
    THEN "field 'EXERCISES' must contain at least one item"
    ELSE CheckExercises(Get(data, "EXERCISES").v, 0, need_reps)

\* the factories' NAME check
FactoryNameError(data) ==
    IF ~Truthy(RawName(data)) THEN "missing required field 'NAME'" ELSE ""

\* Job.from_dict_custom_sets: the MODE checks
CustomSetsModeError(mode_raw) ==
    IF ~IsStr(mode_raw) THEN "missing required field 'MODE'"
    ELSE IF Lower(Strip(mode_raw.v)) # "custom_sets"
    THEN "unsupported MODE " \o Repr(mode_raw.v)
    ELSE ""

\* a slip in the checks below: Rounds is optional, as in Job.from_dict
CustomSetsRoundsOptional(data) ==
    IF ~KeyIn(data, "Rounds") THEN ""
    ELSE IF ~IsInt(Get(data, "Rounds")) THEN "field 'Rounds' must be an integer"
    ELSE IF IntVal(Get(data, "Rounds")) <= 0
    THEN "field 'Rounds' must be a positive integer"
    ELSE ""

\* Job.from_dict_custom_sets: the Rounds checks
CustomSetsRoundsError(data) ==
    IF ~KeyIn(data, "Rounds") THEN "missing required field 'Rounds'"
    ELSE IF ~IsInt(Get(data, "Rounds")) THEN "field 'Rounds' must be an integer"
    ELSE IF IntVal(Get(data, "Rounds")) <= 0
    THEN "field 'Rounds' must be a positive integer"
    ELSE ""

\* the factories end by delegating to the generic parser
\* (the factories' own loop over EXERCISES catches ExerciseValidationError only)
FactoryResult(err, data) ==
    IF err = OverflowMsg THEN Raise("OverflowError", err)
    ELSE IF err # "" THEN Raise("JobValidationError", err)
    ELSE LET job == Job_from_dict(data)
         IN  IF job.ok \/ job.exc = "JobValidationError" THEN job
             ELSE Raise("JobValidationError", job.msg)

\* Job.from_dict_custom_sets(data)
Job_from_dict_custom_sets(data) ==
    IF ~IsDict(data) THEN Raise("JobValidationError", "Job data must be a dict")
    ELSE FactoryResult(Else(CustomSetsModeError(Get(data, "MODE")),
                       Else(FactoryNameError(data),
                       Else(CustomSetsRoundsError(data),
                            ExercisesFieldError(data, FALSE)))),
                       data)

\* Job.from_dict_tabata: the MODE checks
TabataModeError(mode_raw) ==
    IF ~IsStr(mode_raw) THEN "missing required field 'MODE'"
    ELSE IF Upper(Strip(mode_raw.v)) # "TABATA" THEN "MODE for TABATA job must be 'TABATA'"
    ELSE ""

\* Job.from_dict_tabata: the value the factory reads and checks as rounds
TabataRoundsRaw(data) == Get(data, "Rounds")

\* Job.from_dict_tabata: data = dict(data); data["Rounds"] = 8 when none is read
TabataData(data) ==
    IF IsNone(TabataRoundsRaw(data)) THEN DictSet(data, "Rounds", PyInt(8)) ELSE data

\* Job.from_dict_tabata(data)
Job_from_dict_tabata(data) ==
    IF ~IsDict(data) THEN Raise("JobValidationError", "Job data must be a dict")
    ELSE FactoryResult(Else(TabataModeError(Get(data, "MODE")),
                       Else(FactoryNameError(data),
                       Else(PositiveIntFieldError(TabataRoundsRaw(data), "Rounds"),
                            ExercisesFieldError(data, TRUE)))),
                       TabataData(data))

(* ------------------------------------------------------------------ *)
(* Stage                                                              *)
(* ------------------------------------------------------------------ *)

StageAllowedModes == {"custom_sets", "tabata", "emom", "amrap", "for_time", "edt"}

\* Stage.from_dict: the except clause around Job.from_dict
StageJobWrapped(name, idx, mode_str, job) ==
    IF job.ok \/ job.exc = "OverflowError" THEN job
    ELSE IF Lower(mode_str) = "emom" /\ mode_str = "emom"
    THEN Raise("StageValidationError", "unsupported MODE 'emom'")
    ELSE Raise("StageValidationError",
               "Stage " \o Repr(name) \o ": invalid job at index " \o IntStr(idx)
                   \o ": " \o job.msg)

\* Stage.from_dict: the pre-check of the job's MODE, then Job.from_dict
StageJobChecked(name, idx, mode_str, job_data) ==
    IF Lower(mode_str) \notin StageAllowedModes
    THEN Raise("StageValidationError",
               "Stage " \o Repr(name) \o ": unsupported MODE " \o Repr(mode_str)
                   \o " in job " \o IntStr(idx))
    ELSE StageJobWrapped(name, idx, mode_str, Job_from_dict(job_data))

\* Stage.from_dict: one pass of the loop over JOBS, for the job at idx
StageJob(name, idx, job_data) ==
    IF ~IsDict(job_data)
    THEN Raise("StageValidationError",
               "Stage " \o Repr(name) \o ": invalid job at index " \o IntStr(idx)
                   \o ": must be an object")
    ELSE IF IsNone(Get(job_data, "MODE"))
    THEN Raise("StageValidationError", "missing required field 'MODE'")
    ELSE StageJobChecked(name, idx, Strip(PyToStr(Get(job_data, "MODE"))), job_data)

RECURSIVE ParseJobs(_, _, _, _)
RECURSIVE ParseJobsNext(_, _, _, _, _)
\* for idx, job_data in enumerate(raw_jobs): stops at the first invalid job
ParseJobs(name, jobs, idx, acc) ==
    IF idx >= Len(jobs) THEN Ok(acc)
    ELSE ParseJobsNext(name, jobs, idx, acc, StageJob(name, idx, jobs[idx + 1]))

ParseJobsNext(name, jobs, idx, acc, r) ==
    IF ~r.ok THEN r ELSE ParseJobs(name, jobs, idx + 1, Append(acc, r.val))

\* `data.get(A) if A in data else data.get(b) if b in data else None`
GetEither(data, upper_key, lower_key) ==
    IF KeyIn(data, upper_key) THEN Get(data, upper_key)
    ELSE IF KeyIn(data, lower_key) THEN Get(data, lower_key)
    ELSE PyNone

\* the checks of a required list field, an empty list being let through
ListFieldErrorEmptyAllowed(raw, field) ==
    IF IsNone(raw) THEN "missing required field '" \o field \o "'"
    ELSE IF ~IsList(raw) THEN "field '" \o field \o "' must be a list"
    ELSE ""

\* the checks of a required list field (JOBS, STAGES)
ListFieldError(raw, field) ==
    IF IsNone(raw) THEN "missing required field '" \o field \o "'"
    ELSE IF ~IsList(raw) THEN "field '" \o field \o "' must be a list"
    ELSE IF raw.v = <<>> THEN "field '" \o field \o "' must contain at least one item"
    ELSE ""

\* desc_raw = data.get("Description") or data.get("description")
DescriptionRaw(data) == PyOr(Get(data, "Description"), Get(data, "description"))

\* Stage.from_dict: the checks made before the loop over JOBS
StageError(data) ==
    Else(NameError(RawName(data)),
    Else(DescriptionError(DescriptionRaw(data)),
         ListFieldError(GetEither(data, "JOBS", "jobs"), "JOBS")))

StageBuilt(data, jobs) ==
    IF ~jobs.ok THEN jobs
    ELSE Ok([name |-> Strip(RawName(data).v),
             description |-> DescriptionValue(DescriptionRaw(data)),
             jobs |-> jobs.val])

StageResult(data, err) ==
    IF err # "" THEN Raise("StageValidationError", err)
    ELSE StageBuilt(data, ParseJobs(Strip(RawName(data).v),
                                    GetEither(data, "JOBS", "jobs").v, 0, <<>>))

\* Stage.from_dict(data)
Stage_from_dict(data) ==
    IF ~IsDict(data) THEN Raise("StageValidationError", "Stage data must be a dict")
    ELSE StageResult(data, StageError(data))

(* ------------------------------------------------------------------ *)
(* Workout                                                            *)
(* ------------------------------------------------------------------ *)

RECURSIVE ParseStages(_, _, _)
RECURSIVE ParseStagesNext(_, _, _, _)
\* for idx, stage_data in enumerate(raw_stages): stops at the first invalid stage
ParseStages(stages, idx, acc) ==
    IF idx >= Len(stages) THEN Ok(acc)
    ELSE ParseStagesNext(stages, idx, acc, Stage_from_dict(stages[idx + 1]))

ParseStagesNext(stages, idx, acc, r) ==
    IF ~r.ok /\ r.exc = "OverflowError" THEN r
    ELSE IF ~r.ok
    THEN Raise("WorkoutTopLevelValidationError",
               "invalid stage at index " \o IntStr(idx) \o ": " \o r.msg)
    ELSE ParseStages(stages, idx + 1, Append(acc, r.val))

\* Workout.from_dict: the checks made before the loop over STAGES
WorkoutError(data) ==
    Else(NameError(RawName(data)),
    Else(DescriptionError(DescriptionRaw(data)),
         ListFieldError(GetEither(data, "STAGES", "stages"), "STAGES")))

WorkoutBuilt(data, stages) ==
    IF ~stages.ok THEN stages
    ELSE Ok([name |-> Strip(RawName(data).v),
             description |-> DescriptionValue(DescriptionRaw(data)),
             stages |-> stages.val])

WorkoutResult(data, err) ==
    IF err # "" THEN Raise("WorkoutTopLevelValidationError", err)
    ELSE WorkoutBuilt(data, ParseStages(GetEither(data, "STAGES", "stages").v, 0, <<>>))

\* Workout.from_dict(data)
Workout_from_dict(data) ==
    IF ~IsDict(data)
    THEN Raise("WorkoutTopLevelValidationError", "Workout top-level data must be a dict")
    ELSE WorkoutResult(data, WorkoutError(data))

(* ------------------------------------------------------------------ *)
(* Mode resolution of the schema pipeline (v2)                        *)
(* ------------------------------------------------------------------ *)

\* JobModeV2.from_raw: the member for a trimmed, lower-cased text, "" if none
JobModeV2Of(lower) ==
    CASE lower \in {"custom_sets", "custom"} -> "CUSTOM"
      [] lower = "tabata" -> "TABATA"
      [] lower = "emom" -> "EMOM"
      [] lower = "amrap" -> "AMRAP"
      [] lower = "for_time" -> "FT"
      [] lower = "edt" -> "EDT"
      [] OTHER -> ""

\* JobModeV2.from_raw(raw)
JobModeV2_from_raw(raw) ==
    LET lower == Lower(Strip(PyToStr(raw)))
    IN IF JobModeV2Of(lower) # "" THEN Ok(JobModeV2Of(lower))
       ELSE Raise("ValueError", "Unsupported MODE in v2: " \o PyRepr(raw))

\* _MODE_SYNONYMS_V2
\* the synonym table with a canonical value for FOR_TIME that is not a key
ModeSynonymsForeignCanon ==
    [k \in {"CUSTOM", "CUSTOM_SETS", "custom_sets", "custom", "TABATA", "tabata",
            "EMOM", "emom", "AMRAP", "amrap", "FOR_TIME", "for_time", "EDT", "edt"} |->
        CASE k \in {"CUSTOM", "CUSTOM_SETS", "custom_sets", "custom"} -> "custom_sets"
          [] k \in {"TABATA", "tabata"} -> "TABATA"
          [] k \in {"EMOM", "emom"} -> "EMOM"
          [] k \in {"AMRAP", "amrap"} -> "AMRAP"
          [] k \in {"FOR_TIME", "for_time"} -> "for time"
          [] k \in {"EDT", "edt"} -> "EDT"]

MODE_SYNONYMS_V2 ==
    [k \in {"CUSTOM", "CUSTOM_SETS", "custom_sets", "custom", "TABATA", "tabata",
            "EMOM", "emom", "AMRAP", "amrap", "FOR_TIME", "for_time", "EDT", "edt"} |->
        CASE k \in {"CUSTOM", "CUSTOM_SETS", "custom_sets", "custom"} -> "custom_sets"
          [] k \in {"TABATA", "tabata"} -> "TABATA"
          [] k \in {"EMOM", "emom"} -> "EMOM"
          [] k \in {"AMRAP", "amrap"} -> "AMRAP"
          [] k \in {"FOR_TIME", "for_time"} -> "FOR_TIME"
          [] k \in {"EDT", "edt"} -> "EDT"]

\* _SUPPORTED_MODES_V2
SUPPORTED_MODES_V2 == DOMAIN MODE_SYNONYMS_V2

\* _validate_and_normalize_modes_v2: the body of the loop, for one job.
\* val is the job after the assignment job["MODE"] = canon.
NormalizeJobModeV2(job) ==
    LET raw_mode == Get(job, "MODE")
        name == PyOr(PyOr(Get(job, "NAME"), Get(job, "name")), PyStr("?"))
        mode_key == Strip(raw_mode.v)
        canon == IF mode_key \in SUPPORTED_MODES_V2 THEN MODE_SYNONYMS_V2[mode_key]
                 ELSE MODE_SYNONYMS_V2[Upper(mode_key)]
    IN IF ~IsStr(raw_mode) \/ Strip(raw_mode.v) = ""
       THEN Raise("WorkoutLoadError",
                  "Job " \o PyRepr(name) \o " is missing MODE or it is not a string")
       ELSE IF mode_key \notin SUPPORTED_MODES_V2 /\ Upper(mode_key) \notin SUPPORTED_MODES_V2
       THEN Raise("WorkoutLoadError",
                  "Unsupported MODE " \o PyRepr(raw_mode) \o " in job " \o PyRepr(name))
       ELSE Ok(DictSet(job, "MODE", PyStr(canon)))

RECURSIVE NormalizeJobsV2(_, _)
\* the jobs of one stage, in order; jobs before a failing one stay normalised.
\* Gives [items |-> the list afterwards, res |-> Ok or the exception].
NormalizeJobsV2(jobs, idx) ==
    IF idx > Len(jobs) THEN [items |-> jobs, res |-> Ok(PyNone)]
    ELSE IF ~IsDict(jobs[idx]) THEN NormalizeJobsV2(jobs, idx + 1)
    ELSE LET r == NormalizeJobModeV2(jobs[idx])
         IN IF ~r.ok THEN [items |-> jobs, res |-> r]
            ELSE NormalizeJobsV2([jobs EXCEPT ![idx] = r.val], idx + 1)

\* the key under which `data.get(A) or data.get(b) or []` found its list
FoundKey(data, upper_key, lower_key) ==
    IF Truthy(Get(data, upper_key)) THEN upper_key
    ELSE IF Truthy(Get(data, lower_key)) THEN lower_key
    ELSE ""

RECURSIVE NormalizeStagesV2(_, _)
\* _iter_jobs_nodes over the stages, with the in-place updates of the jobs
NormalizeStagesV2(stages, idx) ==
    IF idx > Len(stages) THEN [items |-> stages, res |-> Ok(PyNone)]
    ELSE LET stage == stages[idx]
             key == FoundKey(stage, "JOBS", "jobs")
             r == NormalizeJobsV2(Get(stage, key).v, 1)
             stages2 == [stages EXCEPT ![idx] = DictSet(stage, key, PyList(r.items))]
         IN IF ~IsDict(stage) THEN NormalizeStagesV2(stages, idx + 1)
            ELSE IF key = "" \/ ~IsList(Get(stage, key))
            THEN NormalizeStagesV2(stages, idx + 1)
            ELSE IF ~r.res.ok THEN [items |-> stages2, res |-> r.res]
            ELSE NormalizeStagesV2(stages2, idx + 1)

\* _validate_and_normalize_modes_v2(raw_workout):
\* [doc |-> raw_workout afterwards, res |-> Ok(None) or the exception]
ValidateAndNormalizeModesV2(raw_workout) ==
    LET key == FoundKey(raw_workout, "STAGES", "stages")
        r == NormalizeStagesV2(Get(raw_workout, key).v, 1)
    IN IF key = "" \/ ~IsList(Get(raw_workout, key))
       THEN [doc |-> raw_workout, res |-> Ok(PyNone)]
       ELSE [doc |-> DictSet(raw_workout, key, PyList(r.items)), res |-> r.res]

(* ------------------------------------------------------------------ *)
(* Schema pipeline: the job schema of a MODE                          *)
(* ------------------------------------------------------------------ *)

JOB_MODE_SCHEMAS ==
    [m \in {"custom_sets", "tabata", "emom", "amrap", "for_time", "edt"} |->
        CASE m = "custom_sets" -> "job.custom_sets.schema.json"
          [] m = "tabata" -> "job.tabata.schema.json"
          [] m = "emom" -> "job.emom.schema.json"
          [] m = "amrap" -> "job.amrap.schema.json"
          [] m = "for_time" -> "job.for_time.schema.json"
          [] m = "edt" -> "job.edt.schema.json"]

\* _validate_jobs_against_mode_schemas, for the job j_idx of the stage s_idx:
\* the schema file chosen by the MODE of the job
JobModeSchema(mode_raw, s_idx, j_idx) ==
    IF ~IsStr(mode_raw)
    THEN Raise("SchemaValidationError",
               "Stage " \o IntStr(s_idx) \o ", job " \o IntStr(j_idx)
                   \o ": MODE must be a string for job schema validation")
    ELSE IF Lower(Strip(mode_raw.v)) \notin DOMAIN JOB_MODE_SCHEMAS
    THEN Raise("SchemaValidationError",
               "Stage " \o IntStr(s_idx) \o ", job " \o IntStr(j_idx)
                   \o ": unsupported MODE " \o Repr(mode_raw.v)
                   \o " for job schema validation")
    ELSE Ok(JOB_MODE_SCHEMAS[Lower(Strip(mode_raw.v))])

(* ------------------------------------------------------------------ *)
(* Input documents                                                    *)
(* ------------------------------------------------------------------ *)

\* largest integer written in an input document
MaxInt == 2

\* longest EXERCISES list of an input job
MaxExercises == 2

\* longest JOBS list of an input stage, and STAGES list of an input workout
MaxChildren == 2

\* a key that the document does not hold
Absent == [t |-> "absent", v |-> 0]

\* the pair for key, or nothing when the document does not hold the key
Opt(key, val) == IF val.t = "absent" THEN <<>> ELSE <<KV(key, val)>>

RECURSIVE Rep(_, _)
Rep(c, n) ==
    IF n = 0 THEN ""
    ELSE IF n = 1 THEN c
    ELSE Rep(c, n \div 2) \o Rep(c, n - (n \div 2))

IntValues == {PyInt(n) : n \in -1..MaxInt}

\* values an integer-typed field may carry in a document
ScalarValues ==
    {Absent, PyNone, PyStr("10"), PyStr(""), PyBool(TRUE), PyFloat(5), PyFloat(0)}
        \cup IntValues

RECURSIVE SeqsUpTo(_, _)
\* the sequences over S of length at most n
SeqsUpTo(S, n) ==
    IF n = 0 THEN {<<>>}
    ELSE LET shorter == SeqsUpTo(S, n - 1)
         IN shorter \cup {Append(q, x) : q \in shorter, x \in S}

ExerciseDoc(NAME, reps, wts, weight, extras) ==
    PyDict(Opt("NAME", NAME) \o Opt("reps", reps) \o Opt("work_time_in_seconds", wts)
               \o Opt("weight", weight) \o extras)

ExtraSamples ==
    {<<>>,
     <<KV("tempo", PyStr("slow")), KV("grip", PyInt(1))>>,
     <<KV("note2", PyStr(Rep("v", MAX_EXTRA_VAL_LEN + 1)))>>,
     <<KV(Rep("k", MAX_EXTRA_KEY_LEN + 1), PyInt(1))>>}

\* the exercise nodes given to Exercise.from_dict
ExerciseDocs ==
    {ExerciseDoc(n, r, w, g, x) :
        n \in {Absent, PyStr("Push-ups"), PyStr("  "), PyStr(Rep("n", MAX_NAME_LEN + 1))},
        r \in ScalarValues, w \in ScalarValues,
        g \in {Absent, PyInt(35), PyFloat(5), PyStr("heavy"), PyInt(HugeInt)},
        x \in ExtraSamples}

\* the items an input job lists under EXERCISES
ExerciseItems ==
    {ExerciseDoc(PyStr("Push-ups"), PyInt(MaxInt), Absent, Absent, <<>>),
     ExerciseDoc(PyStr("Deadlifts"), PyInt(1), Absent, PyInt(35), <<>>),
     ExerciseDoc(PyStr("Plank"), Absent, PyInt(MaxInt), Absent, <<>>),
     ExerciseDoc(PyStr("Wall Balls"), Absent, Absent, Absent, <<>>),
     ExerciseDoc(PyStr("Squat"), PyInt(0), Absent, Absent, <<>>),
     ExerciseDoc(PyStr("Row"), PyNone, PyInt(1), Absent, <<>>),
     ExerciseDoc(PyStr("Sled"), PyInt(1), Absent, PyInt(HugeInt), <<>>),
     PyInt(5)}

ExerciseLists == {PyList(l) : l \in SeqsUpTo(ExerciseItems, MaxExercises)}

ValidExercises ==
    PyList(<<ExerciseDoc(PyStr("Push-ups"), PyInt(MaxInt), Absent, Absent, <<>>)>>)

RECURSIVE CaseVariants(_)
\* every way of writing s in upper and lower case letters
CaseVariants(s) ==
    IF s = "" THEN {""}
    ELSE {c \o rest : c \in {LowerChar(Head(s)), UpperChar(Head(s))},
                      rest \in CaseVariants(Tail(s))}

\* the mode names the synonym tables declare
DeclaredSynonyms == {"custom_sets", "custom", "tabata", "emom", "amrap", "for_time", "edt"}

\* texts outside every case variant of a declared synonym
UndeclaredModes == {"xyz", " XyZ ", "Emom2", "it's", "", "  ", "custom sets", "FT"}

\* the MODE texts given to the resolvers
ModeTexts ==
    UNION {CaseVariants(m) : m \in DeclaredSynonyms}
      \cup {" " \o m \o " " : m \in {"CUSTOM", "Tabata", "emom", "FOR_TIME"}}
      \cup UndeclaredModes

\* the MODE values written in input jobs
JobModeSamples ==
    {Absent, PyNone, PyInt(5)} \cup
    {PyStr(m) : m \in {"custom_sets", "CUSTOM_SETS", "Custom_Sets", "custom", "CUSTOM",
                       " custom_sets ", "TABATA", "tabata", " Tabata ", "EMOM", "emom",
                       "AMRAP", "for_time", "FOR_TIME", "EDT", "edt",
                       "xyz", " XyZ ", "it's"}}

CanonicalModes == {"custom_sets", "TABATA", "EMOM", "AMRAP", "for_time", "EDT"}

JobDoc(NAME, MODE, Rounds, rounds, times, flags, EXERCISES, extras) ==
    PyDict(Opt("NAME", NAME) \o Opt("MODE", MODE) \o Opt("Rounds", Rounds)
               \o Opt("rounds", rounds) \o times \o flags
               \o Opt("EXERCISES", EXERCISES) \o extras)

\* jobs that vary MODE, the two spellings of rounds and the presence of exercises
JobDocsModes ==
    {JobDoc(n, m, R, r, <<>>, <<>>, e, <<>>) :
        n \in {PyStr("Upper Body"), Absent},
        m \in JobModeSamples,
        R \in {Absent, PyNone, PyStr("3")} \cup IntValues,
        r \in {Absent, PyInt(0), PyInt(MaxInt)},
        e \in {Absent, ValidExercises}}

JobTimes(wts, wtm, rti) ==
    Opt("work_time_in_seconds", wts) \o Opt("work_time_in_minutes", wtm)
        \o Opt("rest_time_in_seconds", rti)

\* jobs that vary the exercise list and the time fields, per mode
JobDocsExercises ==
    {JobDoc(PyStr("Block"), PyStr(m), R, Absent, JobTimes(wts, wtm, rti), <<>>, e, <<>>) :
        m \in CanonicalModes, R \in {Absent, PyInt(MaxInt)},
        wts \in {Absent, PyInt(MaxInt)}, wtm \in {Absent, PyInt(1)},
        rti \in {Absent, PyInt(0)},
        e \in ExerciseLists}

JobFlags(E1, e2, i1, I2, i3) ==
    Opt("Eccentric (NEG)", E1) \o Opt("eccentric_neg", e2) \o Opt("isometric (HOLD)", i1)
        \o Opt("Isometric (HOLD)", I2) \o Opt("isometric_hold", i3)

FlagValues ==
    {Absent, PyBool(TRUE), PyBool(FALSE), PyStr(" Yes "), PyStr("no"), PyInt(1)}

\* jobs that vary the two flags under every spelling of their keys
JobDocsFlags ==
    {JobDoc(PyStr("J1"), PyStr(m), PyInt(MaxInt), Absent, <<>>,
            JobFlags(E1, e2, i1, I2, i3), e, x) :
        m \in {"custom_sets", "TABATA"},
        E1 \in FlagValues, e2 \in {Absent, PyBool(TRUE), PyStr("1")},
        i1 \in FlagValues, I2 \in {Absent, PyStr("TRUE")},
        i3 \in {Absent, PyBool(TRUE), PyStr("off")},
        e \in {ValidExercises, PyList(<<>>)},
        x \in {<<>>, <<KV(Rep("k", MAX_EXTRA_KEY_LEN + 1), PyInt(1))>>}}

\* the job of the tests' fixture _valid_custom_sets_job_dict, with a given MODE
CustomSetsJobWithMode(m) ==
    JobDoc(PyStr("Upper Body"), m, PyInt(3), Absent, <<>>, <<>>, ValidExercises, <<>>)

\* the items an input stage lists under JOBS
JobItems ==
    {CustomSetsJobWithMode(PyStr("custom_sets")),
     CustomSetsJobWithMode(PyStr("emom")),
     CustomSetsJobWithMode(PyStr(" XyZ ")),
     CustomSetsJobWithMode(Absent),
     JobDoc(PyStr("Upper Body"), PyStr("custom_sets"), Absent, Absent, <<>>, <<>>,
            ValidExercises, <<>>),
     JobDoc(PyStr("T1"), PyStr("TABATA"), Absent, Absent, <<>>, <<>>,
            PyList(<<ExerciseDoc(PyStr("Wall Balls"), Absent, Absent, Absent, <<>>)>>), <<>>),
     JobDoc(PyStr("Heavy"), PyStr("custom_sets"), PyInt(3), Absent, <<>>, <<>>,
            PyList(<<ExerciseDoc(PyStr("Sled"), PyInt(1), Absent, PyInt(HugeInt), <<>>)>>),
            <<>>),
     PyInt(5)}

StageDoc(NAME, description, jobs_key, JOBS) ==
    PyDict(Opt("NAME", NAME) \o Opt("description", description) \o Opt(jobs_key, JOBS))

\* stages that vary the stage's own fields and the list of jobs
StageDocsLists ==
    {StageDoc(n, d, k, j) :
        n \in {PyStr("Warm-up"), Absent},
        d \in {Absent, PyInt(123), PyStr("Heavy work")},
        k \in {"JOBS", "jobs"},
        j \in {Absent, PyNone, PyStr("jobs")}
                \cup {PyList(l) : l \in SeqsUpTo(JobItems, MaxChildren)}}

\* stages of one job, for every job of JobDocsModes
StageDocsOneJob ==
    {StageDoc(PyStr("Warm-up"), Absent, "JOBS", PyList(<<j>>)) : j \in JobDocsModes}

\* the stage of the tests' fixture _valid_stage_dict, with a given job
StageWithJob(name, job) == StageDoc(PyStr(name), Absent, "JOBS", PyList(<<job>>))

\* the items an input workout lists under STAGES
StageItems ==
    {StageWithJob("Warm-up", CustomSetsJobWithMode(PyStr("custom_sets"))),
     StageWithJob("Strength", CustomSetsJobWithMode(PyStr("CUSTOM"))),
     StageWithJob("Finisher", CustomSetsJobWithMode(PyStr(" XyZ "))),
     StageDoc(PyStr("Core"), Absent, "jobs",
              PyList(<<CustomSetsJobWithMode(PyStr("Tabata")), PyInt(5),
                       CustomSetsJobWithMode(PyInt(5))>>)),
     StageDoc(PyStr("Empty"), Absent, "JOBS", PyList(<<>>)),
     StageDoc(PyStr("Cooldown"), Absent, "jobs",
              PyList(<<CustomSetsJobWithMode(PyStr("custom_sets")),
                       JobDoc(PyStr("Stretch"), PyStr("for_time"), Absent, Absent, <<>>,
                              <<>>, ValidExercises, <<>>)>>)),
     StageWithJob("Heavy",
         JobDoc(PyStr("Heavy"), PyStr("custom_sets"), PyInt(3), Absent, <<>>, <<>>,
                PyList(<<ExerciseDoc(PyStr("Sled"), PyInt(1), Absent, PyInt(HugeInt),
                                     <<>>)>>),
                <<>>)),
     PyInt(5)}

WorkoutDoc(NAME, description, stages_key, STAGES) ==
    PyDict(Opt("NAME", NAME) \o Opt("description", description) \o Opt(stages_key, STAGES))

\* workouts that vary the workout's own fields and the list of stages
WorkoutDocsLists ==
    {WorkoutDoc(n, d, k, st) :
        n \in {PyStr("Full Body A"), Absent},
        d \in {Absent, PyInt(123)},
        k \in {"STAGES", "stages"},
        st \in {Absent, PyStr("stages")}
                 \cup {PyList(l) : l \in SeqsUpTo(StageItems, MaxChildren)}}

\* workouts of one stage of one job, for every MODE text
WorkoutDocsModes ==
    {WorkoutDoc(PyStr("Full Body A"), Absent, "STAGES",
                PyList(<<StageWithJob("Warm-up", CustomSetsJobWithMode(PyStr(m)))>>)) :
        m \in ModeTexts}

\* documents, by kind, that vary the spelling of the keys (NAME, the
\* description, the list of children), the texts bound to the length-capped
\* fields and the extra fields
TextDocs ==
    LET NameKeys == {"NAME", "Name", "name"}
        \* a short name, one of MAX_NAME_LEN characters, the same padded with
        \* blanks, and one that is too long
        NameTexts ==
            {PyStr("Push-ups"), PyStr(Rep("n", MAX_NAME_LEN)),
             PyStr(" " \o Rep("n", MAX_NAME_LEN) \o " "),
             PyStr(Rep("n", MAX_NAME_LEN + 1))}
        \* texts for a field capped at max_len: short with blanks around it,
        \* of max_len characters, longer, longer after a blank, and not a text
        TextSamples(max_len) ==
            {Absent, PyStr(" Heavy work "), PyStr(Rep("d", max_len)),
             PyStr(Rep("d", max_len) \o "e"), PyStr(" " \o Rep("d", max_len) \o "e"),
             PyInt(123)}
        \* extra fields, also with a recognised key between them
        ExtraSamplesMixed ==
            ExtraSamples \cup
            {<<KV("tempo", PyStr(" slow ")), KV("weight", PyInt(35)), KV("grip", PyNone)>>,
             <<KV(Rep("k", MAX_EXTRA_KEY_LEN), PyStr(Rep("v", MAX_EXTRA_VAL_LEN) \o "w"))>>}
        DescriptionKeys == {"Description", "description"}
        OneJob == PyList(<<CustomSetsJobWithMode(PyStr("custom_sets"))>>)
        OneStage ==
            PyList(<<StageWithJob("Warm-up", CustomSetsJobWithMode(PyStr("custom_sets")))>>)
    IN [exercise |->
            {PyDict(<<KV(nk, n)>> \o Opt("reps", PyInt(MaxInt)) \o Opt(tk, t)
                        \o Opt("help", h) \o x) :
                nk \in NameKeys, n \in NameTexts,
                tk \in {"notes", "description"}, t \in TextSamples(MAX_NOTES_LEN),
                h \in {Absent, PyStr(" " \o Rep("h", MAX_NOTES_LEN) \o "i")},
                x \in ExtraSamplesMixed},
        job |->
            {PyDict(<<KV(nk, n), KV("MODE", PyStr("custom_sets"))>> \o Opt(dk, d)
                        \o Opt("cadence", c) \o <<KV(ek, ValidExercises)>> \o x) :
                nk \in NameKeys, n \in NameTexts,
                dk \in DescriptionKeys, d \in TextSamples(MAX_DESC_LEN),
                c \in {Absent, PyStr(" 3-1-1 "), PyStr(Rep("c", MAX_CADENCE_LEN + 1))},
                ek \in {"EXERCISES", "Exercises", "exercises"},
                x \in ExtraSamplesMixed},
        stage |->
            {PyDict(<<KV(nk, n)>> \o Opt(dk, d) \o <<KV(jk, OneJob)>>) :
                nk \in NameKeys, n \in NameTexts,
                dk \in DescriptionKeys, d \in TextSamples(MAX_DESC_LEN),
                jk \in {"JOBS", "jobs"}},
        workout |->
            {PyDict(<<KV(nk, n)>> \o Opt(dk, d) \o <<KV(sk, OneStage)>>) :
                nk \in NameKeys, n \in NameTexts,
                dk \in DescriptionKeys, d \in TextSamples(MAX_DESC_LEN),
                sk \in {"STAGES", "stages"}}]

(* ------------------------------------------------------------------ *)
(* The state machine: a caller holds one document and makes one call  *)
(* ------------------------------------------------------------------ *)

Init ==
    /\ op = "none"
    /\ result = NoResult
    /\ \/ kind = "exercise" /\ doc \in ExerciseDocs
       \/ kind = "mode" /\ doc \in {PyStr(m) : m \in ModeTexts}
       \/ kind = "mode" /\ doc \in {PyNone, PyInt(5), PyBool(TRUE)}
       \/ kind = "job" /\ doc \in JobDocsModes
       \/ kind = "job" /\ doc \in JobDocsExercises
       \/ kind = "job" /\ doc \in JobDocsFlags
       \/ kind = "stage" /\ doc \in StageDocsLists
       \/ kind = "stage" /\ doc \in StageDocsOneJob
       \/ kind = "workout" /\ doc \in WorkoutDocsLists
       \/ kind = "workout" /\ doc \in WorkoutDocsModes
       \/ kind \in DOMAIN TextDocs /\ doc \in TextDocs[kind]
       \* jobs, valid but for them, that give two of the integer-typed fields
       \/ /\ kind = "job"
          /\ \E m \in {"custom_sets", "EDT"}, v1, v2 \in ScalarValues :
             \E f1, f2 \in {"Rounds", "rounds", "work_time_in_seconds",
                            "work_time_in_minutes", "rest_time_in_seconds",
                            "Rest_between_exercises_in_seconds",
                            "rest_between_exercises_in_seconds",
                            "Rest_between_rounds_in_seconds",
                            "rest_between_rounds_in_seconds"} :
                /\ f1 # f2
                /\ doc = JobDoc(PyStr("Block"), PyStr(m), Absent, Absent,
                                Opt(f1, v1) \o Opt(f2, v2), <<>>, ValidExercises, <<>>)

Call(k, name, res) ==
    /\ op = "none"
    /\ kind = k
    /\ op' = name
    /\ result' = res
    /\ UNCHANGED <<kind, doc>>

ExerciseFromDict == Call("exercise", "Exercise.from_dict", Exercise_from_dict(doc))

JobModeFromStr == Call("mode", "JobMode.from_str", JobMode_from_str(doc))

JobModeV2FromRaw == Call("mode", "JobModeV2.from_raw", JobModeV2_from_raw(doc))

JobFromDict == Call("job", "Job.from_dict", Job_from_dict(doc))

JobFromDictCustomSets ==
    Call("job", "Job.from_dict_custom_sets", Job_from_dict_custom_sets(doc))

JobFromDictTabata == Call("job", "Job.from_dict_tabata", Job_from_dict_tabata(doc))

\* the schema pipeline resolves the MODE of the first job of the first stage
ValidateJobsAgainstModeSchemas ==
    Call("mode", "_validate_jobs_against_mode_schemas", JobModeSchema(doc, 1, 1))

StageFromDict == Call("stage", "Stage.from_dict", Stage_from_dict(doc))

WorkoutFromDict == Call("workout", "Workout.from_dict", Workout_from_dict(doc))

\* the normaliser works on the caller's document in place
NormalizeModesV2 ==
    /\ op = "none"
    /\ kind = "workout"
    /\ op' = "_validate_and_normalize_modes_v2"
    /\ doc' = ValidateAndNormalizeModesV2(doc).doc
    /\ result' = ValidateAndNormalizeModesV2(doc).res
    /\ UNCHANGED kind

Next ==
    \/ ExerciseFromDict
    \/ JobModeFromStr
    \/ JobModeV2FromRaw
    \/ ValidateJobsAgainstModeSchemas
    \/ JobFromDict
    \/ JobFromDictCustomSets
    \/ JobFromDictTabata
    \/ StageFromDict
    \/ WorkoutFromDict
    \/ NormalizeModesV2

Spec == Init /\ [][Next]_vars

(* ------------------------------------------------------------------ *)
(* Properties                                                         *)
(* ------------------------------------------------------------------ *)

\* a flag value that counts as true: a native boolean as is, a string when
\* its trimmed, lower-cased form is one of true, yes, 1
FlagIsTrue(raw) ==
    \/ IsBool(raw) /\ raw.v
    \/ IsStr(raw) /\ Lower(Strip(raw.v)) \in {"true", "yes", "1"}

FlagKeys ==
    {"Eccentric (NEG)", "eccentric_neg", "isometric (HOLD)", "Isometric (HOLD)",
     "isometric_hold"}

HoldsNoFlag(pair) == pair.k.v \notin FlagKeys

\* the job node with its two flags left out
WithoutFlags(data) == PyDict(SelectSeq(data.v, HoldsNoFlag))

JobBuilders == {"Job.from_dict", "Job.from_dict_custom_sets", "Job.from_dict_tabata"}

\* C1: a job node that satisfies every other rule is rejected by Job.from_dict
\* exactly when both of its flags coerce to true, and no Job returned by
\* Job.from_dict, from_dict_custom_sets or from_dict_tabata has both flags true.
C1_FlagsMutuallyExclusive ==
    /\ (op = "Job.from_dict" /\ Job_from_dict(WithoutFlags(doc)).ok) =>
           (~result.ok <=> (FlagIsTrue(EccentricRaw(doc)) /\ FlagIsTrue(IsometricRaw(doc))))
    /\ (op \in JobBuilders /\ result.ok) =>
           ~(result.val.eccentric_neg /\ result.val.isometric_hold)

\* a job, valid but for its flags, whose flags are both true, one of them
\* written as a padded string, has been rejected for that reason
C1_Witness ==
    /\ op = "Job.from_dict"
    /\ Job_from_dict(WithoutFlags(doc)).ok
    /\ IsStr(EccentricRaw(doc)) /\ EccentricRaw(doc).v # Strip(EccentricRaw(doc).v)
    /\ FlagIsTrue(EccentricRaw(doc)) /\ FlagIsTrue(IsometricRaw(doc))
    /\ ~result.ok
    /\ result.msg = "Eccentric (NEG) and Isometric (HOLD) cannot both be true"

\* a field is present when the node gives it a value other than null
Given(data, key) == KeyIn(data, key) /\ Get(data, key) # PyNone

\* an integer value (of Python's int, which the booleans belong to)
IsInteger(x) == x.t \in {"int", "bool"}

\* the exercise node with reps set to 1 and no work time: accepted exactly
\* when NAME, weight and the extra keys are well-formed
WithPlainReps(data) ==
    DictSet(DictSet(data, "reps", PyInt(1)), "work_time_in_seconds", PyNone)

\* C2: an exercise node whose NAME, weight and extra keys are well-formed is
\* accepted by Exercise.from_dict exactly when at least one of reps and
\* work_time_in_seconds is present and each one present is an integer.
C2_ExerciseRepsOrTime ==
    (op = "Exercise.from_dict" /\ Exercise_from_dict(WithPlainReps(doc)).ok) =>
        (result.ok <=>
            /\ Given(doc, "reps") \/ Given(doc, "work_time_in_seconds")
            /\ Given(doc, "reps") => IsInteger(Get(doc, "reps"))
            /\ Given(doc, "work_time_in_seconds") =>
                   IsInteger(Get(doc, "work_time_in_seconds")))

\* an exercise with a work time and no reps has been accepted
C2_Witness ==
    /\ op = "Exercise.from_dict"
    /\ ~KeyIn(doc, "reps")
    /\ Given(doc, "work_time_in_seconds")
    /\ result.ok
    /\ result.val.reps = PyNone
    /\ result.val.work_time_in_seconds = Get(doc, "work_time_in_seconds")

\* the spelling that stands for the mode of a declared synonym
ModeOfSynonym(lower) == IF lower = "custom" THEN "custom_sets" ELSE lower

\* a workout of one stage that holds one job with a MODE text
IsOneJobWorkout(data) ==
    /\ IsDict(data)
    /\ IsList(Get(data, "STAGES")) /\ Len(Get(data, "STAGES").v) = 1
    /\ IsDict(Get(data, "STAGES").v[1])
    /\ IsList(Get(Get(data, "STAGES").v[1], "JOBS"))
    /\ Len(Get(Get(data, "STAGES").v[1], "JOBS").v) = 1
    /\ IsDict(Get(Get(data, "STAGES").v[1], "JOBS").v[1])
    /\ IsStr(Get(Get(Get(data, "STAGES").v[1], "JOBS").v[1], "MODE"))

OnlyJobMode(data) == Get(Get(Get(data, "STAGES").v[1], "JOBS").v[1], "MODE").v

\* C3: every case variant of every declared synonym of a mode is resolved, by
\* JobMode.from_str, by JobModeV2.from_raw and by the _MODE_SYNONYMS_V2
\* normaliser, to the canonical id of that mode.
C3_SynonymClosure ==
    /\ (op = "JobMode.from_str" /\ IsStr(doc) /\ Lower(doc.v) \in DeclaredSynonyms) =>
           /\ result.ok
           /\ result.val = JobMode_from_str(PyStr(ModeOfSynonym(Lower(doc.v)))).val
    /\ (op = "JobModeV2.from_raw" /\ IsStr(doc) /\ Lower(doc.v) \in DeclaredSynonyms) =>
           /\ result.ok
           /\ result.val = JobModeV2_from_raw(PyStr(ModeOfSynonym(Lower(doc.v)))).val
    /\ (op = "_validate_and_normalize_modes_v2" /\ IsOneJobWorkout(doc)
            /\ Lower(OnlyJobMode(doc)) \in DeclaredSynonyms) =>
           /\ result.ok
           /\ OnlyJobMode(doc) = MODE_SYNONYMS_V2[ModeOfSynonym(Lower(OnlyJobMode(doc)))]

\* a MODE text outside the declared synonyms, however trimmed or cased
\* (and free of quote characters, so that '<raw>' is well-defined)
IsUndeclaredMode(m) ==
    IsStr(m) /\ Lower(Strip(m.v)) \notin DeclaredSynonyms /\ ~HasChar(m.v, "'")

\* the failure echoes the raw MODE text as it was written
EchoesRawMode(res, raw) ==
    ~res.ok /\ Contains(res.msg, "unsupported MODE '" \o raw \o "'")

\* the JOBS list of a stage node
StageJobs(data) == GetEither(data, "JOBS", "jobs").v

\* C4: a MODE string outside the declared synonyms makes the validation fail
\* with a message that holds unsupported MODE '<raw>', the raw text verbatim,
\* in Job.from_dict, in Job.from_dict_custom_sets and in the pre-check of
\* Stage.from_dict.
C4_UnsupportedModeVerbatim ==
    /\ (op = "Job.from_dict" /\ NameError(RawName(doc)) = ""
            /\ IsUndeclaredMode(Get(doc, "MODE"))) =>
           EchoesRawMode(result, Get(doc, "MODE").v)
    /\ (op = "Job.from_dict_custom_sets" /\ IsUndeclaredMode(Get(doc, "MODE"))) =>
           EchoesRawMode(result, Get(doc, "MODE").v)
    /\ (op = "Stage.from_dict" /\ StageError(doc) = "" /\ IsDict(StageJobs(doc)[1])
            /\ IsUndeclaredMode(Get(StageJobs(doc)[1], "MODE"))) =>
           EchoesRawMode(result, Get(StageJobs(doc)[1], "MODE").v)

IsCustomSetsMode(m) == IsStr(m) /\ Lower(Strip(m.v)) = "custom_sets"

\* C5: Job.from_dict_custom_sets returns a Job only for MODE custom_sets, an
\* integer Rounds > 0 and a non-empty EXERCISES list of valid exercises; the
\* Job's rounds is the input Rounds and its exercises are those of the input,
\* in order; a missing Rounds is reported as missing required field 'Rounds'.
C5_CustomSetsFactory ==
    op = "Job.from_dict_custom_sets" =>
        /\ result.ok =>
               /\ IsCustomSetsMode(Get(doc, "MODE"))
               /\ KeyIn(doc, "Rounds")
               /\ IsInteger(Get(doc, "Rounds")) /\ IntVal(Get(doc, "Rounds")) > 0
               /\ IsList(Get(doc, "EXERCISES")) /\ Get(doc, "EXERCISES").v # <<>>
               /\ result.val.rounds = Get(doc, "Rounds")
               /\ Len(result.val.exercises) = Len(Get(doc, "EXERCISES").v)
               /\ \A i \in 1..Len(Get(doc, "EXERCISES").v) :
                      /\ Exercise_from_dict(Get(doc, "EXERCISES").v[i]).ok
                      /\ result.val.exercises[i] =
                             Exercise_from_dict(Get(doc, "EXERCISES").v[i]).val
        /\ (IsCustomSetsMode(Get(doc, "MODE")) /\ Truthy(RawName(doc))
                /\ ~KeyIn(doc, "Rounds")) =>
               /\ ~result.ok
               /\ result.exc = "JobValidationError"
               /\ result.msg = "missing required field 'Rounds'"

\* the factory has returned a Job of two different exercises
C5_Witness ==
    /\ op = "Job.from_dict_custom_sets"
    /\ result.ok
    /\ result.val.rounds = PyInt(MaxInt)
    /\ Len(result.val.exercises) = 2
    /\ result.val.exercises[1].name # result.val.exercises[2].name

\* the jobs before position i are valid custom_sets jobs
EarlierJobsValid(jobs, i) ==
    \A j \in 1..(i - 1) : Job_from_dict_custom_sets(jobs[j]).ok

\* a job that is a valid custom_sets job but for having no Rounds
LacksOnlyRounds(job) ==
    /\ IsDict(job)
    /\ ~KeyIn(job, "Rounds") /\ ~KeyIn(job, "rounds")
    /\ Job_from_dict_custom_sets(DictSet(job, "Rounds", PyInt(1))).ok

\* C6: Stage.from_dict rejects a stage with a custom_sets job that has no
\* Rounds, and the StageValidationError holds invalid job at index <i> and
\* missing required field 'Rounds'.
C6_StageRejectsMissingRounds ==
    (op = "Stage.from_dict" /\ StageError(doc) = "") =>
        \A i \in 1..Len(StageJobs(doc)) :
            (EarlierJobsValid(StageJobs(doc), i) /\ LacksOnlyRounds(StageJobs(doc)[i])) =>
                /\ ~result.ok
                /\ result.exc = "StageValidationError"
                /\ Contains(result.msg, "invalid job at index " \o IntStr(i - 1))
                /\ Contains(result.msg, "missing required field 'Rounds'")

\* a job with MODE 'emom' and the fields of a valid custom_sets job
IsEmomJob(job) ==
    /\ IsDict(job)
    /\ Get(job, "MODE") = PyStr("emom")
    /\ Job_from_dict_custom_sets(DictSet(job, "MODE", PyStr("custom_sets"))).ok

\* C7: Stage.from_dict rejects a stage whose job has MODE 'emom', its other
\* fields being those of a valid custom_sets job, with a StageValidationError
\* that holds unsupported MODE 'emom'.
C7_StageRejectsEmom ==
    (op = "Stage.from_dict" /\ StageError(doc) = "") =>
        \A i \in 1..Len(StageJobs(doc)) :
            (EarlierJobsValid(StageJobs(doc), i) /\ IsEmomJob(StageJobs(doc)[i])) =>
                /\ ~result.ok
                /\ result.exc = "StageValidationError"
                /\ Contains(result.msg, "unsupported MODE 'emom'")

\* at least one exercise, each with an integer reps > 0
HasPositiveReps(job) ==
    /\ job.exercises # <<>>
    /\ \A i \in 1..Len(job.exercises) :
           IsInteger(job.exercises[i].reps) /\ IntVal(job.exercises[i].reps) > 0

\* the node with a list of one valid exercise for EXERCISES
WithValidExercises(data) == DictSet(data, "EXERCISES", ValidExercises)

\* the exercise at position i is the first one without reps
FirstLackingReps(exs, i) ==
    /\ IsDict(exs[i]) /\ ~Given(exs[i], "reps")
    /\ \A j \in 1..(i - 1) :
           /\ IsDict(exs[j]) /\ Given(exs[j], "reps")
           /\ Exercise_from_dict(exs[j]).ok

\* C8: every accepted TABATA job, through Job.from_dict, Job.from_dict_tabata
\* or Stage.from_dict, has at least one exercise and each of its exercises has
\* an integer reps > 0; a TABATA job with an exercise lacking reps is rejected
\* with an error that names the index of that exercise.
C8_TabataPositiveReps ==
    /\ (op \in {"Job.from_dict", "Job.from_dict_tabata"} /\ result.ok
            /\ result.val.mode = "TABATA") =>
           HasPositiveReps(result.val)
    /\ (op = "Stage.from_dict" /\ result.ok) =>
           \A i \in 1..Len(result.val.jobs) :
               result.val.jobs[i].mode = "TABATA" => HasPositiveReps(result.val.jobs[i])
    /\ (op \in {"Job.from_dict", "Job.from_dict_tabata"}
            /\ Job_from_dict(WithValidExercises(doc)).ok
            /\ Job_from_dict(WithValidExercises(doc)).val.mode = "TABATA"
            /\ IsList(Get(doc, "EXERCISES"))) =>
           \A i \in 1..Len(Get(doc, "EXERCISES").v) :
               FirstLackingReps(Get(doc, "EXERCISES").v, i) =>
                   ~result.ok /\ Contains(result.msg, "index " \o IntStr(i - 1))

\* the value of a field of the Job: the one given, or the default when omitted
GivenOr(raw, default) == IF raw = PyNone THEN PyInt(default) ELSE raw

\* C9: an accepted TABATA job has rounds 8, work_time_in_seconds 20 and
\* rest_time_in_seconds 10 for each of these that the input omits, and the
\* given value for each that it gives.
C9_TabataDefaults ==
    (op \in {"Job.from_dict", "Job.from_dict_tabata"} /\ result.ok
         /\ result.val.mode = "TABATA") =>
        /\ result.val.rounds = GivenOr(RoundsRaw(doc), 8)
        /\ result.val.work_time_in_seconds = GivenOr(Get(doc, "work_time_in_seconds"), 20)
        /\ result.val.rest_time_in_seconds = GivenOr(Get(doc, "rest_time_in_seconds"), 10)

\* C10: Job.from_dict_tabata rejects with a JobValidationError every TABATA
\* job whose rounds value, under the key rounds or Rounds, is present and is
\* not a positive integer.
C10_TabataRejectsBadRounds ==
    (op = "Job.from_dict_tabata"
         /\ IsStr(Get(doc, "MODE")) /\ Upper(Strip(Get(doc, "MODE").v)) = "TABATA"
         /\ RoundsRaw(doc) # PyNone
         /\ ~(IsInteger(RoundsRaw(doc)) /\ IntVal(RoundsRaw(doc)) > 0)) =>
        ~result.ok /\ result.exc = "JobValidationError"

\* the job node names the mode, however cased or padded
ModeIs(data, lower) ==
    IsStr(Get(data, "MODE")) /\ Lower(Strip(Get(data, "MODE").v)) = lower

\* the job node is valid once it lists one valid exercise
ValidButForExercises(data) == Job_from_dict(WithValidExercises(data)).ok

\* the job node lists no exercise
ListsNoExercise(data) == ExercisesRaw(data) = PyList(<<>>)

\* C11: an EMOM job without rounds is rejected; an accepted EMOM job has a
\* positive integer rounds and work_time_in_seconds = 60 when the input omits
\* it; an EMOM job may have zero exercises.
C11_EmomRule ==
    op = "Job.from_dict" =>
        /\ (ModeIs(doc, "emom") /\ RoundsRaw(doc) = PyNone) => ~result.ok
        /\ (result.ok /\ result.val.mode = "EMOM") =>
               /\ IsInteger(result.val.rounds) /\ IntVal(result.val.rounds) > 0
               /\ result.val.work_time_in_seconds =
                      GivenOr(Get(doc, "work_time_in_seconds"), 60)
        /\ (ModeIs(doc, "emom") /\ ListsNoExercise(doc) /\ ValidButForExercises(doc)) =>
               result.ok

\* C12: an AMRAP job without work_time_in_minutes is rejected; an accepted
\* AMRAP job has a positive integer work_time_in_minutes; an AMRAP job may
\* have zero exercises.
C12_AmrapRule ==
    op = "Job.from_dict" =>
        /\ (ModeIs(doc, "amrap") /\ Get(doc, "work_time_in_minutes") = PyNone) =>
               ~result.ok
        /\ (result.ok /\ result.val.mode = "AMRAP") =>
               /\ IsInteger(result.val.work_time_in_minutes)
               /\ IntVal(result.val.work_time_in_minutes) > 0
        /\ (ModeIs(doc, "amrap") /\ ListsNoExercise(doc) /\ ValidButForExercises(doc)) =>
               result.ok

\* the message names the exercise at position i (counted from 0 in the text)
NamesIndex(msg, i) == Contains(msg, "index " \o IntStr(i - 1))

\* the item at position i is no valid exercise, or has no reps
LacksReps(exs, i) ==
    ~Exercise_from_dict(exs[i]).ok \/ ~Given(exs[i], "reps")

\* every item is a valid exercise
AllValidExercises(exs) == \A i \in 1..Len(exs) : Exercise_from_dict(exs[i]).ok

\* C13: a FOR_TIME job accepted by Job.from_dict has at least one exercise,
\* each with reps, and its rounds is the input's (the value of Rounds, else of
\* rounds) or 1 when omitted; a FOR_TIME job with no exercises or with an
\* exercise lacking reps is rejected, the error naming an offending exercise
\* (the first one lacking reps when every item is a valid exercise).
C13_ForTimeRule ==
    op = "Job.from_dict" =>
        /\ (result.ok /\ result.val.mode = "for_time") =>
               /\ result.val.exercises # <<>>
               /\ \A i \in 1..Len(result.val.exercises) :
                      result.val.exercises[i].reps # PyNone
               /\ result.val.rounds = GivenOr(RoundsRaw(doc), 1)
        /\ (ModeIs(doc, "for_time") /\ ListsNoExercise(doc)) => ~result.ok
        /\ (ModeIs(doc, "for_time") /\ IsList(ExercisesRaw(doc))
                /\ \E i \in 1..Len(ExercisesRaw(doc).v) : LacksReps(ExercisesRaw(doc).v, i)) =>
               /\ ~result.ok
               /\ ValidButForExercises(doc) =>
                      \E i \in 1..Len(ExercisesRaw(doc).v) :
                          LacksReps(ExercisesRaw(doc).v, i) /\ NamesIndex(result.msg, i)
               /\ (ValidButForExercises(doc) /\ AllValidExercises(ExercisesRaw(doc).v)) =>
                      \A i \in 1..Len(ExercisesRaw(doc).v) :
                          FirstLackingReps(ExercisesRaw(doc).v, i) =>
                              NamesIndex(result.msg, i)

\* a FOR_TIME job of two valid exercises, the second without reps, has been
\* rejected with an error that names the second
C13_Witness ==
    /\ op = "Job.from_dict"
    /\ ModeIs(doc, "for_time")
    /\ Len(ExercisesRaw(doc).v) = 2
    /\ AllValidExercises(ExercisesRaw(doc).v)
    /\ FirstLackingReps(ExercisesRaw(doc).v, 2)
    /\ ~result.ok
    /\ result.msg = "FOR_TIME job exercise at index 1 must define 'reps'"

\* C14: an EDT job accepted by Job.from_dict has work_time_in_minutes, rounds
\* = null whatever the input carried, at least one exercise and no exercise
\* with work_time_in_seconds; an EDT job without work_time_in_minutes, or with
\* an exercise that declares work_time_in_seconds, is rejected.
C14_EdtRule ==
    op = "Job.from_dict" =>
        /\ (result.ok /\ result.val.mode = "EDT") =>
               /\ result.val.work_time_in_minutes # PyNone
               /\ result.val.rounds = PyNone
               /\ result.val.exercises # <<>>
               /\ \A i \in 1..Len(result.val.exercises) :
                      result.val.exercises[i].work_time_in_seconds = PyNone
        /\ (ModeIs(doc, "edt") /\ Get(doc, "work_time_in_minutes") = PyNone) => ~result.ok
        /\ (ModeIs(doc, "edt") /\ IsList(ExercisesRaw(doc))
                /\ \E i \in 1..Len(ExercisesRaw(doc).v) :
                       /\ IsDict(ExercisesRaw(doc).v[i])
                       /\ Given(ExercisesRaw(doc).v[i], "work_time_in_seconds")) =>
               ~result.ok

\* an EDT job whose input carried a rounds value has been accepted without it
C14_Witness ==
    /\ op = "Job.from_dict"
    /\ ModeIs(doc, "edt")
    /\ RoundsRaw(doc) = PyInt(MaxInt)
    /\ result.ok
    /\ result.val.rounds = PyNone
    /\ Len(result.val.exercises) = 2

\* the exercise breaks a rule of the job's mode: FOR_TIME wants reps, EDT
\* wants no work_time_in_seconds
BreaksModeRule(data, ex) ==
    \/ ModeIs(data, "for_time") /\ ~Given(ex, "reps")
    \/ ModeIs(data, "edt") /\ Given(ex, "work_time_in_seconds")

\* the item at position i is invalid in the job: no valid exercise, or one
\* that breaks a rule of the mode
InvalidExercise(data, i) ==
    \/ ~Exercise_from_dict(ExercisesRaw(data).v[i]).ok
    \/ BreaksModeRule(data, ExercisesRaw(data).v[i])

\* the child at position i is the first invalid one
IsFirst(Invalid(_), i) == Invalid(i) /\ \A j \in 1..(i - 1) : ~Invalid(j)

\* the node with the list under key cut after its first n items
CutAfter(data, key, n) == DictSet(data, key, PyList(SubSeq(Get(data, key).v, 1, n)))

\* the key a stage or a workout gives its list of children under
ListKey(data, upper_key, lower_key) == IF KeyIn(data, upper_key) THEN upper_key ELSE lower_key

\* C15 at the level of one job: the error is that of the first invalid
\* exercise, whether it is no valid exercise or breaks a rule of the mode,
\* and names its index
C15_InJob ==
    (op = "Job.from_dict" /\ KeyIn(doc, "EXERCISES") /\ IsList(Get(doc, "EXERCISES"))
         /\ ValidButForExercises(doc)) =>
        \A i \in 1..Len(Get(doc, "EXERCISES").v) :
            IsFirst(LAMBDA n : InvalidExercise(doc, n), i) =>
                /\ ~result.ok
                /\ NamesIndex(result.msg, i)
                /\ result = Job_from_dict(CutAfter(doc, "EXERCISES", i))

\* C15 at the level of one stage: the error is that of the first invalid job
C15_InStage ==
    (op = "Stage.from_dict" /\ StageError(doc) = "") =>
        \A i \in 1..Len(StageJobs(doc)) :
            IsFirst(LAMBDA n : ~Job_from_dict(StageJobs(doc)[n]).ok, i) =>
                /\ ~result.ok
                /\ result = Stage_from_dict(CutAfter(doc, ListKey(doc, "JOBS", "jobs"), i))

\* C15 at the level of the workout: the error is that of the first invalid
\* stage and names its index
C15_InWorkout ==
    (op = "Workout.from_dict" /\ WorkoutError(doc) = "") =>
        \A i \in 1..Len(GetEither(doc, "STAGES", "stages").v) :
            IsFirst(LAMBDA n : ~Stage_from_dict(GetEither(doc, "STAGES", "stages").v[n]).ok, i) =>
                /\ ~result.ok
                /\ NamesIndex(result.msg, i)
                /\ result = Workout_from_dict(CutAfter(doc, ListKey(doc, "STAGES", "stages"), i))

\* C15: of several invalid children, the error reported is that of the first
\* in document order (stage, then job, then exercise); within one job, when
\* exercises i and j > i are both invalid, for any reason, the error names i.
C15_FailFirst == C15_InJob /\ C15_InStage /\ C15_InWorkout

\* the message ends with the inner message
IsSuffix(inner, msg) ==
    Len(inner) <= Len(msg) /\ SubSeq(msg, Len(msg) - Len(inner) + 1, Len(msg)) = inner

\* the parent's error wraps the child's: it holds the parent's prefix for the
\* child at position i and ends with the child's message unchanged
Wraps(res, prefix, i, child) ==
    /\ ~res.ok
    /\ Contains(res.msg, prefix \o IntStr(i - 1) \o ": ")
    /\ IsSuffix(child.msg, res.msg)

\* the job node is one that Stage.from_dict hands to Job.from_dict: an object
\* whose MODE is a supported mode, however written
IsJobOfSupportedMode(job) ==
    IsDict(job) /\ \E m \in StageAllowedModes : ModeIs(job, m)

\* C16: the error of a child is never swallowed or replaced: the job, the
\* stage and the workout re-raise it under their prefix (invalid exercise at
\* index N: , invalid job at index N: , invalid stage at index N: ) and the
\* child's message is the end of the parent's, for every mode and every
\* spelling of MODE.
C16_ErrorsWrapped ==
    /\ (op = "Job.from_dict" /\ KeyIn(doc, "EXERCISES") /\ IsList(Get(doc, "EXERCISES"))
            /\ ValidButForExercises(doc)) =>
           \A i \in 1..Len(Get(doc, "EXERCISES").v) :
               (IsDict(Get(doc, "EXERCISES").v[i])
                    /\ IsFirst(LAMBDA n : ~Exercise_from_dict(Get(doc, "EXERCISES").v[n]).ok, i)) =>
                   Wraps(result, "invalid exercise at index ", i,
                         Exercise_from_dict(Get(doc, "EXERCISES").v[i]))
    /\ (op = "Stage.from_dict" /\ StageError(doc) = "") =>
           \A i \in 1..Len(StageJobs(doc)) :
               (IsJobOfSupportedMode(StageJobs(doc)[i])
                    /\ IsFirst(LAMBDA n : ~Job_from_dict(StageJobs(doc)[n]).ok, i)) =>
                   Wraps(result, "invalid job at index ", i, Job_from_dict(StageJobs(doc)[i]))
    /\ (op = "Workout.from_dict" /\ WorkoutError(doc) = "") =>
           \A i \in 1..Len(GetEither(doc, "STAGES", "stages").v) :
               (IsDict(GetEither(doc, "STAGES", "stages").v[i])
                    /\ IsFirst(LAMBDA n :
                                   ~Stage_from_dict(GetEither(doc, "STAGES", "stages").v[n]).ok, i)) =>
                   Wraps(result, "invalid stage at index ", i,
                         Stage_from_dict(GetEither(doc, "STAGES", "stages").v[i]))

IsPrefix(p, text) == Len(p) <= Len(text) /\ SubSeq(text, 1, Len(p)) = p

\* the validated value is a text of at most max_len characters that begins
\* the input text
CutOf(value, input, max_len) ==
    IsStr(value) /\ Len(value.v) <= max_len /\ IsPrefix(value.v, input)

\* a validated text field is empty or the cut of the text that the node
\* gives under one of the keys, as read by Read
CutOfSomeKey(value, data, keys, max_len, Read(_)) ==
    value # PyNone =>
        \E k \in keys : IsStr(Get(data, k)) /\ CutOf(value, Read(Get(data, k).v), max_len)

\* every text kept in extra is the cut of the input value of its key
ExtraValuesCut(extra, data) ==
    \A i \in 1..Len(extra.v) :
        IsStr(extra.v[i].v) =>
            /\ IsStr(Get(data, extra.v[i].k.v))
            /\ CutOf(extra.v[i].v, Get(data, extra.v[i].k.v).v, MAX_EXTRA_VAL_LEN)

\* the law of the soft-capped fields, the input text of a description, a
\* note or a help being read by Read
SoftTruncationLaw(Read(_)) ==
    /\ (op = "Exercise.from_dict" /\ result.ok) =>
           /\ CutOfSomeKey(result.val.notes, doc,
                           {"notes", "note", "DESCRIPTION", "Description", "description"},
                           MAX_NOTES_LEN, Read)
           /\ CutOfSomeKey(result.val.help, doc, {"help"}, MAX_NOTES_LEN, Read)
           /\ ExtraValuesCut(result.val.extra, doc)
    /\ (op \in JobBuilders /\ result.ok) =>
           /\ CutOfSomeKey(result.val.description, doc, {"description", "Description"},
                           MAX_DESC_LEN, Read)
           /\ ExtraValuesCut(result.val.extra, doc)
    /\ (op \in {"Stage.from_dict", "Workout.from_dict"} /\ result.ok) =>
           CutOfSomeKey(result.val.description, doc, {"description", "Description"},
                        MAX_DESC_LEN, Read)

AsWritten(text) == text

\* C17 (as stated): the validated value of a soft-capped field (description
\* <= 300, notes and help <= 200, extra values <= 100) is no longer than the
\* maximum and is a prefix of the input string.
C17_SoftTruncation == SoftTruncationLaw(AsWritten)

\* C17 (amended): the validated value of a soft-capped field is no longer
\* than the maximum and is a prefix of the input string with the blanks
\* around it removed (description, notes, help) or of the input string itself
\* (extra values).
C17_SoftTruncationOfTrimmed == SoftTruncationLaw(Strip)

\* a job's description, too long even without the blank before it, has been
\* cut to its first MAX_DESC_LEN characters after the blank
C17_Witness ==
    /\ op = "Job.from_dict"
    /\ result.ok
    /\ IsStr(JobDescriptionRaw(doc))
    /\ JobDescriptionRaw(doc).v # Strip(JobDescriptionRaw(doc).v)
    /\ Len(Strip(JobDescriptionRaw(doc).v)) > MAX_DESC_LEN
    /\ result.val.description = PyStr(SubSeq(Strip(JobDescriptionRaw(doc).v), 1, MAX_DESC_LEN))

Builders == JobBuilders \cup {"Exercise.from_dict", "Stage.from_dict", "Workout.from_dict"}

\* the keys that the builder called recognises in its node
RecognisedKeys == IF op = "Exercise.from_dict" THEN ExerciseCoreKeys ELSE JobCoreKeys

\* the node has an unrecognised key of more than MAX_EXTRA_KEY_LEN characters
HasOverlongKey(data) ==
    \E i \in 1..Len(data.v) :
        data.v[i].k.v \notin RecognisedKeys /\ Len(data.v[i].k.v) > MAX_EXTRA_KEY_LEN

\* the law of the strictly capped fields, the name being read by Read
StrictLengthLaw(Read(_)) ==
    /\ (op \in Builders /\ IsStr(RawName(doc))
            /\ Len(Read(RawName(doc).v)) > MAX_NAME_LEN) => ~result.ok
    /\ (op \in JobBuilders \cup {"Exercise.from_dict"} /\ HasOverlongKey(doc)) => ~result.ok

CanonicalKey(k) ==
    CASE k \in {"Name", "name"} -> "NAME"
      [] k \in {"Exercises", "exercises"} -> "EXERCISES"
      [] k = "jobs" -> "JOBS"
      [] k = "stages" -> "STAGES"
      [] k = "Description" -> "description"
      [] OTHER -> k

\* the node with each of its keys under the canonical spelling
WithCanonicalKeys(data) ==
    PyDict([i \in 1..Len(data.v) |->
               [k |-> PyStr(CanonicalKey(data.v[i].k.v)), v |-> data.v[i].v]])

\* the node is an object that gives each field under one spelling of its key
IsKeyVariantDoc ==
    /\ IsDict(doc)
    /\ \A i, j \in 1..Len(doc.v) :
           CanonicalKey(doc.v[i].k.v) = CanonicalKey(doc.v[j].k.v) => i = j

\* C19: a node that gives its name under NAME, Name or name (and its
\* exercises under EXERCISES, Exercises or exercises, its jobs under JOBS or
\* jobs, its stages under STAGES or stages, its description under Description
\* or description) gets from Exercise/Job/Stage/Workout.from_dict the result
\* that the canonical spelling gets.
C19_KeyCaseTolerant ==
    IsKeyVariantDoc =>
        /\ op = "Exercise.from_dict" => result = Exercise_from_dict(WithCanonicalKeys(doc))
        /\ op = "Job.from_dict" => result = Job_from_dict(WithCanonicalKeys(doc))
        /\ op = "Stage.from_dict" => result = Stage_from_dict(WithCanonicalKeys(doc))
        /\ op = "Workout.from_dict" => result = Workout_from_dict(WithCanonicalKeys(doc))

\* the pairs of the node whose key the builder called does not recognise
Unrecognised(data) ==
    SelectSeq(data.v, LAMBDA p : ~(IsStr(p.k) /\ p.k.v \in RecognisedKeys))

\* the node without the pairs that the builder called does not recognise
RecognisedOnly(data) ==
    PyDict(SelectSeq(data.v, LAMBDA p : IsStr(p.k) /\ p.k.v \in RecognisedKeys))

\* a value as it is passed through: a text by its first MAX_EXTRA_VAL_LEN
\* characters, any other value unchanged
PassedThrough(v) ==
    IF IsStr(v) /\ Len(v.v) > MAX_EXTRA_VAL_LEN
    THEN PyStr(SubSeq(v.v, 1, MAX_EXTRA_VAL_LEN))
    ELSE v

\* the unrecognised pairs of the node, in input order, each value passed through
PassThroughOf(data) ==
    PyDict([i \in 1..Len(Unrecognised(data)) |->
               [k |-> Unrecognised(data)[i].k, v |-> PassedThrough(Unrecognised(data)[i].v)]])

\* C20: for every exercise and job accepted by Exercise.from_dict,
\* Job.from_dict, from_dict_custom_sets or from_dict_tabata, extra holds exactly
\* the input keys outside the recognised key set, in input order, each with its
\* input value (a text by its first 100 characters), so no recognised key is in
\* extra; and a node whose unrecognised keys have at most 30 characters is
\* accepted or rejected exactly as the node without them.
C20_ExtraPassThrough ==
    (op \in JobBuilders \cup {"Exercise.from_dict"} /\ IsDict(doc)) =>
        /\ result.ok =>
               /\ result.val.extra = PassThroughOf(doc)
               /\ \A i \in 1..Len(result.val.extra.v) :
                      result.val.extra.v[i].k.v \notin RecognisedKeys
        /\ ~HasOverlongKey(doc) =>
               /\ op = "Exercise.from_dict" =>
                      result.ok = Exercise_from_dict(RecognisedOnly(doc)).ok
               /\ op = "Job.from_dict" =>
                      result.ok = Job_from_dict(RecognisedOnly(doc)).ok
               /\ op = "Job.from_dict_custom_sets" =>
                      result.ok = Job_from_dict_custom_sets(RecognisedOnly(doc)).ok
               /\ op = "Job.from_dict_tabata" =>
                      result.ok = Job_from_dict_tabata(RecognisedOnly(doc)).ok

\* a job with an unrecognised key of MAX_EXTRA_KEY_LEN characters, whose text
\* has more than MAX_EXTRA_VAL_LEN characters, has been accepted with that key
\* alone in extra, its text cut
C20_Witness ==
    /\ op = "Job.from_dict"
    /\ result.ok
    /\ Len(Unrecognised(doc)) = 1
    /\ Len(Unrecognised(doc)[1].k.v) = MAX_EXTRA_KEY_LEN
    /\ IsStr(Unrecognised(doc)[1].v)
    /\ Len(Unrecognised(doc)[1].v.v) > MAX_EXTRA_VAL_LEN
    /\ Len(result.val.extra.v) = 1
    /\ result.val.extra.v[1].k = Unrecognised(doc)[1].k
    /\ Len(result.val.extra.v[1].v.v) = MAX_EXTRA_VAL_LEN

\* C21: no call changes the document it is given: after Workout.from_dict,
\* Stage.from_dict, Job.from_dict, Job.from_dict_tabata, every other builder
\* and _validate_and_normalize_modes_v2, the document of the caller is equal to
\* what it was before the call.
C21_NoInputMutation == [][doc' = doc]_vars

\* a job node with a name and the MODE text
JobWithMode(mode_raw) == PyDict(<<KV("NAME", PyStr("Upper Body")), KV("MODE", mode_raw)>>)

\* the mode whose job schema is the file
SchemaMode(filename) ==
    CHOOSE m \in DOMAIN JOB_MODE_SCHEMAS : JOB_MODE_SCHEMAS[m] = filename

\* the three resolvers accept the MODE text together, and then select one mode
ResolversAgree(inline, schema, normalised) ==
    /\ inline.ok = schema.ok
    /\ schema.ok = normalised.ok
    /\ inline.ok =>
           /\ Lower(inline.val) = SchemaMode(schema.val)
           /\ Lower(Get(normalised.val, "MODE").v) = SchemaMode(schema.val)

\* C22: for every MODE string, JobMode.from_str, the JOB_MODE_SCHEMAS lookup
\* of _validate_jobs_against_mode_schemas and the normaliser
\* _validate_and_normalize_modes_v2 all accept it or all reject it, and when
\* they accept it they select the same mode.
C22_PipelinesAgreeOnMode ==
    /\ (op = "JobMode.from_str" /\ IsStr(doc)) =>
           ResolversAgree(result, JobModeSchema(doc, 1, 1),
                          NormalizeJobModeV2(JobWithMode(doc)))
    /\ (op = "_validate_jobs_against_mode_schemas" /\ IsStr(doc)) =>
           ResolversAgree(JobMode_from_str(doc), result,
                          NormalizeJobModeV2(JobWithMode(doc)))

\* the elements of a list
Items(l) == {l[i] : i \in 1..Len(l)}

\* the list a node gives under one of two keys, empty when it gives none
ListUnder(data, upper_key, lower_key) ==
    IF FoundKey(data, upper_key, lower_key) # ""
           /\ IsList(Get(data, FoundKey(data, upper_key, lower_key)))
    THEN Get(data, FoundKey(data, upper_key, lower_key)).v
    ELSE <<>>

\* the job nodes of a workout document
JobNodes(data) ==
    UNION {{j \in Items(ListUnder(st, "JOBS", "jobs")) : IsDict(j)} :
              st \in {s \in Items(ListUnder(data, "STAGES", "stages")) : IsDict(s)}}

\* the document is one that the normaliser has normalised
IsNormalised == op = "_validate_and_normalize_modes_v2" /\ result.ok

\* C23: the MODE normaliser applied to a document that it has normalised
\* accepts it and changes nothing, every MODE of that document being a
\* canonical value that maps to itself and that JobModeV2.from_raw accepts;
\* and the typed model built from the document is the one built from the
\* document normalised again.
C23_NormaliseIdempotent ==
    IsNormalised =>
        /\ ValidateAndNormalizeModesV2(doc) = [doc |-> doc, res |-> Ok(PyNone)]
        /\ \A j \in JobNodes(doc) :
               /\ Get(j, "MODE").v \in SUPPORTED_MODES_V2
               /\ MODE_SYNONYMS_V2[Get(j, "MODE").v] = Get(j, "MODE").v
               /\ JobModeV2_from_raw(Get(j, "MODE")).ok
        /\ Workout_from_dict(ValidateAndNormalizeModesV2(doc).doc) = Workout_from_dict(doc)

\* a workout whose job was written with a MODE that the normaliser rewrites
\* to FOR_TIME has been normalised, and builds a typed model
C23_Witness ==
    /\ IsNormalised
    /\ \E j \in JobNodes(doc) : Get(j, "MODE") = PyStr("FOR_TIME")
    /\ Workout_from_dict(doc).ok

\* the value is not a list of at least one item
HasNoItems(raw) == ~IsList(raw) \/ raw.v = <<>>

\* the input lists of children that the builders read
InputStages(data) == GetEither(data, "STAGES", "stages")
InputJobs(data) == GetEither(data, "JOBS", "jobs")

\* C24: Workout.from_dict fails when STAGES is absent, not a list or empty,
\* and Stage.from_dict fails when JOBS is absent, not a list or empty; every
\* Workout returned has at least one stage and every stage returned at least
\* one job, the stages and the jobs being those of the input lists, in the
\* same number and order.
C24_NonEmptyCollections ==
    /\ (op = "Workout.from_dict" /\ IsDict(doc)) =>
           /\ HasNoItems(InputStages(doc)) =>
                  ~result.ok /\ result.exc = "WorkoutTopLevelValidationError"
           /\ result.ok =>
                  /\ Len(result.val.stages) >= 1
                  /\ Len(result.val.stages) = Len(InputStages(doc).v)
                  /\ \A i \in 1..Len(result.val.stages) :
                         /\ result.val.stages[i] = Stage_from_dict(InputStages(doc).v[i]).val
                         /\ Len(result.val.stages[i].jobs) >= 1
                         /\ Len(result.val.stages[i].jobs)
                                = Len(InputJobs(InputStages(doc).v[i]).v)
    /\ (op = "Stage.from_dict" /\ IsDict(doc)) =>
           /\ HasNoItems(InputJobs(doc)) =>
                  ~result.ok /\ result.exc = "StageValidationError"
           /\ result.ok =>
                  /\ Len(result.val.jobs) >= 1
                  /\ Len(result.val.jobs) = Len(InputJobs(doc).v)
                  /\ \A i \in 1..Len(result.val.jobs) :
                         result.val.jobs[i] = Job_from_dict(InputJobs(doc).v[i]).val

\* a workout of two different stages has been built, with its two stages in
\* the order of the input
C24_Witness ==
    /\ op = "Workout.from_dict"
    /\ result.ok
    /\ Len(InputStages(doc).v) = MaxChildren
    /\ InputStages(doc).v[1] # InputStages(doc).v[2]
    /\ result.val.stages[1] = Stage_from_dict(InputStages(doc).v[1]).val
    /\ result.val.stages[2] = Stage_from_dict(InputStages(doc).v[2]).val
    /\ result.val.stages[1] # result.val.stages[2]

\* the integer-typed fields of a job and of an exercise
JobIntFields ==
    {"Rounds", "work_time_in_seconds", "work_time_in_minutes", "rest_time_in_seconds",
     "Rest_between_exercises_in_seconds", "Rest_between_rounds_in_seconds"}

ExerciseIntFields == {"reps", "work_time_in_seconds"}

\* the node gives the field a value that is not an integer
GivenNonInteger(data, key) == Given(data, key) /\ ~IsInteger(Get(data, key))

\* the node without the key
WithoutKey(data, key) == PyDict(SelectSeq(data.v, LAMBDA p : p.k # PyStr(key)))

\* the call has been rejected; with a message naming the field when the node
\* without the field is accepted
RejectedFor(key, without) ==
    ~result.ok /\ (without.ok => Contains(result.msg, key))

\* C25: a job or an exercise that gives one of its integer-typed fields a value
\* that is not an integer (the string "10", an empty string, a float) is
\* rejected by Job.from_dict, respectively Exercise.from_dict, with a message
\* naming the field when the field is its only defect: the value is never cast
\* and never treated as absent.
C25_NoSilentCasting ==
    /\ (op = "Job.from_dict" /\ IsDict(doc)) =>
           \A f \in JobIntFields :
               GivenNonInteger(doc, f) => RejectedFor(f, Job_from_dict(WithoutKey(doc, f)))
    /\ (op = "Exercise.from_dict" /\ IsDict(doc)) =>
           \A f \in ExerciseIntFields :
               GivenNonInteger(doc, f) =>
                   RejectedFor(f, Exercise_from_dict(WithoutKey(doc, f)))

\* null, or an integer of at least min
NullOrIntFrom(x, min) == IsNone(x) \/ (IsInteger(x) /\ IntVal(x) >= min)

\* the numeric ranges of a typed exercise and of a typed job
ExerciseInRange(e) ==
    /\ NullOrIntFrom(e.reps, 1)
    /\ NullOrIntFrom(e.work_time_in_seconds, 1)
    /\ IsNone(e.weight) \/ (IsNumber(e.weight) /\ e.weight.v >= 0)

JobInRange(j) ==
    /\ NullOrIntFrom(j.work_time_in_seconds, 0)
    /\ NullOrIntFrom(j.work_time_in_minutes, 0)
    /\ NullOrIntFrom(j.rest_time_in_seconds, 0)
    /\ NullOrIntFrom(j.rest_between_exercises_in_seconds, 0)
    /\ NullOrIntFrom(j.rest_between_rounds_in_seconds, 0)
    /\ NullOrIntFrom(j.rounds, 1)
    /\ \A i \in 1..Len(j.exercises) : ExerciseInRange(j.exercises[i])

StageInRange(s) == \A i \in 1..Len(s.jobs) : JobInRange(s.jobs[i])

\* C26: in every Workout, Stage, Job and Exercise returned, each job time and
\* rest field is null or an integer >= 0, job rounds is null or an integer > 0,
\* each exercise reps and work_time_in_seconds is null or an integer > 0, and
\* exercise weight is null or a number >= 0.
C26_NumericRanges ==
    result.ok =>
        /\ op = "Exercise.from_dict" => ExerciseInRange(result.val)
        /\ op \in JobBuilders => JobInRange(result.val)
        /\ op = "Stage.from_dict" => StageInRange(result.val)
        /\ op = "Workout.from_dict" =>
               \A i \in 1..Len(result.val.stages) : StageInRange(result.val.stages[i])

\* the checks of Job.from_dict in the order of the steps: (1) NAME, (2) MODE,
\* (3) the common optional fields and the exclusive flags, (4) the exercises,
\* (5) the fields that the mode requires, (6) the rule of the mode, (7) the
\* extra keys
StepOrderError(data) ==
    Else(NameError(RawName(data)),
    Else(JobModeError(data),
    Else(DescriptionError(JobDescriptionRaw(data)),
    Else(PositiveIntFieldError(RoundsRaw(data), "Rounds"),
    Else(IntFieldError(Get(data, "work_time_in_seconds"), "work_time_in_seconds"),
    Else(PositiveIntFieldError(Get(data, "work_time_in_minutes"), "work_time_in_minutes"),
    Else(IntFieldError(Get(data, "rest_time_in_seconds"), "rest_time_in_seconds"),
    Else(IntFieldError(RestBetweenExercisesRaw(data), "Rest_between_exercises_in_seconds"),
    Else(IntFieldError(RestBetweenRoundsRaw(data), "Rest_between_rounds_in_seconds"),
    Else(CadenceError(CadenceRaw(data)),
    Else(FlagsError(CoerceFlag(EccentricRaw(data)), CoerceFlag(IsometricRaw(data))),
    Else(ExercisesError(ExercisesRaw(data)),
    Else(EdtWorkTimeError(JobModeResult(data).val, Get(data, "work_time_in_minutes")),
    Else(ModeRuleError(JobModeResult(data).val, ExercisesValue(ExercisesRaw(data).v)),
         ExtraError(data.v, JobCoreKeys)))))))))))))))

\* the first job of a stage whose own fields and list of jobs are well-formed
HasFirstJob(data) ==
    IsDict(data) /\ StageError(data) = "" /\ IsDict(InputJobs(data).v[1])

\* C27: a job is checked in the order (1) NAME, (2) MODE, (3) common optional
\* fields and flag exclusivity, (4) exercises, (5) mode required fields, (6)
\* mode rule, (7) extra keys, and the error reported is that of the earliest
\* failing step: by Job.from_dict for every rejected job, and by
\* Job.from_dict_custom_sets and Stage.from_dict for a job with a defect of its
\* NAME, which is reported whatever its MODE.
C27_StepOrder ==
    /\ (op = "Job.from_dict" /\ IsDict(doc) /\ ~result.ok) =>
           result.msg = StepOrderError(doc)
    /\ (op = "Job.from_dict_custom_sets" /\ IsDict(doc) /\ NameError(RawName(doc)) # "") =>
           ~result.ok /\ result.msg = NameError(RawName(doc))
    /\ (op = "Stage.from_dict" /\ HasFirstJob(doc)
            /\ NameError(RawName(InputJobs(doc).v[1])) # "") =>
           ~result.ok /\ IsSuffix(NameError(RawName(InputJobs(doc).v[1])), result.msg)

\* the field of the Job that a recognised key of an integer field is read into
JobFieldOfKey ==
    [k \in {"Rounds", "rounds", "work_time_in_seconds", "work_time_in_minutes",
            "rest_time_in_seconds", "Rest_between_exercises_in_seconds",
            "rest_between_exercises_in_seconds", "Rest_between_rounds_in_seconds",
            "rest_between_rounds_in_seconds"} |->
        CASE k \in {"Rounds", "rounds"} -> "rounds"
          [] k \in {"Rest_between_exercises_in_seconds",
                    "rest_between_exercises_in_seconds"} ->
                 "rest_between_exercises_in_seconds"
          [] k \in {"Rest_between_rounds_in_seconds", "rest_between_rounds_in_seconds"} ->
                 "rest_between_rounds_in_seconds"
          [] OTHER -> k]

\* the node gives an integer under the key, and no other spelling of the key
GivesIntegerOnlyUnder(data, key) ==
    /\ Given(data, key) /\ IsInteger(Get(data, key))
    /\ \A k \in DOMAIN JobFieldOfKey :
           (k # key /\ JobFieldOfKey[k] = JobFieldOfKey[key]) => ~KeyIn(data, k)

\* C28: in every job accepted by Job.from_dict, each integer field that the
\* input gives under a recognised key, the value 0 included, has exactly that
\* value in the Job returned; only the rounds of an EDT job are dropped.
C28_ValuePreserved ==
    (op = "Job.from_dict" /\ result.ok) =>
        \A key \in DOMAIN JobFieldOfKey :
            (GivesIntegerOnlyUnder(doc, key)
                 /\ ~(JobFieldOfKey[key] = "rounds" /\ result.val.mode = "EDT")) =>
                result.val[JobFieldOfKey[key]] = Get(doc, key)

\* C29: every failure that leaves Workout.from_dict is a
\* WorkoutTopLevelValidationError, every failure that leaves Stage.from_dict is
\* a StageValidationError, and every failure that leaves Job.from_dict,
\* Job.from_dict_custom_sets or Job.from_dict_tabata is a JobValidationError:
\* no error raised deeper in the tree escapes a parent unwrapped.
C29_ErrorKindClosure ==
    ~result.ok =>
        /\ op = "Workout.from_dict" => result.exc = "WorkoutTopLevelValidationError"
        /\ op = "Stage.from_dict" => result.exc = "StageValidationError"
        /\ op \in {"Job.from_dict", "Job.from_dict_custom_sets", "Job.from_dict_tabata"} =>
               result.exc = "JobValidationError"

====
